---- MODULE Spec2Model ----
(***************************************************************************)
(* Model of the ingestion pipeline of the asset-intelligence platform:     *)
(* src/ingest/main.py (Ingester), src/ingest/enrichment/*.py and            *)
(* src/ingest/scoring/risk_scorer.py.                                       *)
(*                                                                          *)
(* Python values are modelled as follows.                                   *)
(*  - a str is a sequence of one-character strings, wrapped as Str(s);      *)
(*    Absent is a key that is absent and NonStr a JSON/YAML value that is   *)
(*    not a str (a number, a list); NONE is None;                           *)
(*  - a call that can raise returns [exc |-> <exception name>, val |-> v],  *)
(*    exc = "none" when it returns normally;                                *)
(*  - an instant is a tick of the clock; TicksPerMonth ticks make a         *)
(*    calendar month.                                                       *)
(***************************************************************************)
EXTENDS Integers, Sequences, FiniteSets, TLC

NONE == "None"

Ok(v) == [exc |-> "none", val |-> v]
Raise(e) == [exc |-> e, val |-> NONE]

\* A str-valued JSON/YAML field: a str, an absent key, or a value of another type.
Str(s) == [t |-> "str", s |-> s]
Absent == [t |-> "absent", s |-> <<>>]
NonStr == [t |-> "nonstr", s |-> <<>>]

\* An int-valued JSON field.
IntV(n) == [t |-> "int", v |-> n]
NoInt == [t |-> "absent", v |-> 0]

(***************************************************************************)
(* Bounds of the model.                                                    *)
(***************************************************************************)
MaxRules == 2
MaxClock == 2
TicksPerMonth == 2

(***************************************************************************)
(* str helpers: str.lower(), str.upper(), `sub in s`, s.startswith(p).      *)
(***************************************************************************)
LowerChar(c) ==
    CASE c = "N" -> "n"
      [] c = "A" -> "a"
      [] c = "O" -> "o"
      [] c = "S" -> "s"
      [] c = "H" -> "h"
      [] OTHER -> c

lower(s) == [i \in 1..Len(s) |-> LowerChar(s[i])]

StartsWithAt(s, p, k) ==
    /\ k + Len(p) - 1 <= Len(s)
    /\ \A i \in 1..Len(p) : s[k + i - 1] = p[i]

Contains(sub, s) == \E k \in 1..(Len(s) + 1) : StartsWithAt(s, sub, k)

upper(sev) ==
    CASE sev = "critical" -> "CRITICAL"
      [] sev = "high" -> "HIGH"
      [] sev = "medium" -> "MEDIUM"
      [] sev = "low" -> "LOW"
      [] OTHER -> sev

NGINX == <<"n", "g", "i", "n", "x">>
APACHE == <<"a", "p", "a", "c", "h", "e">>
OPENSSH == <<"o", "p", "e", "n", "s", "s", "h">>

(***************************************************************************)
(* src/ingest/enrichment/geoip.py                                          *)
(* An address is modelled by its first two octets <<o1, o2>> (the prefixes  *)
(* the code tests end inside the first two octets), wrapped as              *)
(* [t |-> "str", o |-> <<o1, o2>>]; t = "nonstr" is a target.ip that is not *)
(* a str, t = "absent" an event without target.ip.                          *)
(* reader is "none" (no database loaded) or "loaded"; lookup is what        *)
(* reader.city does for this call.                                          *)
(***************************************************************************)
Ip(a, b) == [t |-> "str", o |-> <<a, b>>]
IpNonStr == [t |-> "nonstr", o |-> <<0, 0>>]
IpAbsent == [t |-> "absent", o |-> <<0, 0>>]

Lookups == {"hit", "hit_nocountry", "miss", "error"}

GeoResult(country, city, haslocation) ==
    [country_name |-> country, city_name |-> city, location |-> haslocation]

enrich_ip(reader, ip_address, lookup) ==
    IF ip_address.t # "str"
    THEN Raise("AttributeError")
    ELSE IF \/ ip_address.o[1] = 127
            \/ ip_address.o[1] = 10
            \/ (ip_address.o[1] = 172 /\ ip_address.o[2] = 16)
            \/ (ip_address.o[1] = 192 /\ ip_address.o[2] = 168)
    THEN Ok(GeoResult("PRIVATE", "PRIVATE", FALSE))
    ELSE IF reader = "none"
    THEN Ok(GeoResult("UNKNOWN", "UNKNOWN", FALSE))
    ELSE CASE lookup = "hit" -> Ok(GeoResult("Iceland", "Reykjavik", TRUE))
           [] lookup = "hit_nocountry" -> Ok(GeoResult(NONE, NONE, TRUE))
           [] lookup = "miss" -> Ok(GeoResult("UNKNOWN", "UNKNOWN", FALSE))
           [] OTHER -> Ok(GeoResult("ERROR", "ERROR", FALSE))

(***************************************************************************)
(* src/ingest/enrichment/tls_parser.py                                     *)
(* probes.tls.cert_der_b64 is [t, self_signed, valid_to]: t = "absent" (no  *)
(* tls probe), "empty" (an empty string), "bad" (bytes that are no          *)
(* certificate) or "der" (a certificate with these fields).                 *)
(***************************************************************************)
Cert(kind, ss, vt) == [t |-> kind, self_signed |-> ss, valid_to |-> vt]
NoCert == Cert("absent", FALSE, 0)

\* datetime.isoformat() of an aware UTC datetime, and datetime.fromisoformat.
isoformat(t) == [text |-> t, offset |-> "+00:00"]
fromisoformat(x) == x.text

TlsCert(kind, ss, vt) == [t |-> kind, self_signed |-> ss, valid_to |-> vt]
NoTlsCert == TlsCert("absent", FALSE, isoformat(0))

parse_certificate(cert_der_b64) ==
    IF cert_der_b64.t = "der"
    THEN TlsCert("cert", cert_der_b64.self_signed, isoformat(cert_der_b64.valid_to))
    ELSE TlsCert("error", FALSE, isoformat(0))

(***************************************************************************)
(* src/ingest/enrichment/cve_rules.py                                      *)
(* A rule is [cve_id, severity, server_regex, ssh_banner_regex].  A regex   *)
(* is [t, p]: t = "absent" (the rule has no such key), "pattern" (a literal *)
(* pattern p, which re.search finds anywhere in the text), "bad" (a str     *)
(* that does not compile: re.error) or "nonstr" (a YAML value that is not a *)
(* str: re.search raises TypeError).  A severity is [t, s] with s one word. *)
(***************************************************************************)
Pattern(p) == [t |-> "pattern", p |-> p]
NoRegex == [t |-> "absent", p |-> <<>>]
BadRegex == [t |-> "bad", p |-> <<>>]
NonStrRegex == [t |-> "nonstr", p |-> <<>>]

Sev(w) == [t |-> "str", s |-> w]
SevAbsent == [t |-> "absent", s |-> ""]
SevNonStr == [t |-> "nonstr", s |-> ""]

Rule(id, sev, sre, bre) ==
    [cve_id |-> id, severity |-> sev, server_regex |-> sre, ssh_banner_regex |-> bre]

\* re.search(regex, text, re.IGNORECASE): "match", "nomatch", or the exception.
\* The pattern is compiled before the text is looked at.
re_search(regex, text) ==
    CASE regex.t = "bad" -> "re.error"
      [] regex.t = "nonstr" -> "TypeError"
      [] text.t # "str" -> "TypeError"
      [] OTHER -> IF Contains(lower(regex.p), lower(text.s)) THEN "match" ELSE "nomatch"

\* rule.get('severity', 'UNKNOWN')
RuleSeverity(rule) == IF rule.severity.t = "absent" THEN Sev("UNKNOWN") ELSE rule.severity

CveMatch(rule, on, value) ==
    [cve_id |-> rule.cve_id, severity |-> RuleSeverity(rule),
     matched_on |-> on, matched_value |-> value]

\* One `for rule in cve_rules` loop of match_cves over the rules from index i on:
\* the matches appended to acc, or the exception that leaves the loop.
RECURSIVE MatchLoop(_, _, _, _, _, _)
MatchLoop(cve_rules, i, key, on, text, acc) ==
    IF i > Len(cve_rules)
    THEN Ok(acc)
    ELSE LET rule == cve_rules[i]
             regex == rule[key]
             r == re_search(regex, text)
         IN  IF regex.t = "absent"
             THEN MatchLoop(cve_rules, i + 1, key, on, text, acc)
             ELSE CASE r = "match" ->
                         MatchLoop(cve_rules, i + 1, key, on, text,
                                   Append(acc, CveMatch(rule, on, text)))
                    [] r = "nomatch" \/ r = "re.error" ->
                         MatchLoop(cve_rules, i + 1, key, on, text, acc)
                    [] OTHER -> Raise(r)

\* `if server_header:` / `if ssh_banner:` : the value is present and not ''.
Truthy(text) == text.t = "nonstr" \/ (text.t = "str" /\ text.s # <<>>)

match_cves(cve_rules, probes) ==
    LET http == IF Truthy(probes.server)
                THEN MatchLoop(cve_rules, 1, "server_regex", "http_server_header",
                               probes.server, <<>>)
                ELSE Ok(<<>>)
    IN  IF http.exc # "none"
        THEN http
        ELSE IF Truthy(probes.banner)
             THEN MatchLoop(cve_rules, 1, "ssh_banner_regex", "ssh_banner",
                            probes.banner, http.val)
             ELSE http

(***************************************************************************)
(* An event, as json.loads gives it:                                       *)
(*   id            a sequence of name tokens, <<>> when missing or ''       *)
(*   collector_id  a word, "" when missing or ''                            *)
(*   ip, port      target.ip, target.port                                   *)
(*   probes        whether the event has a "probes" key                     *)
(*   server        probes.http.headers.Server                               *)
(*   banner        probes.ssh_banner.Banner (Absent: no ssh_banner probe;   *)
(*                 Str(<<>>): an ssh_banner probe without banner text)      *)
(*   cert          probes.tls.cert_der_b64                                  *)
(*   upstream      what the incoming JSON carries under the keys            *)
(*                 "enrichment", "risk_score" and "risk_breakdown": for     *)
(*                 each key "absent" (no such key) or "forged" (a value put *)
(*                 there by the sender)                                     *)
(***************************************************************************)
Upstream(enrichment, risk_score, risk_breakdown) ==
    [enrichment |-> enrichment, risk_score |-> risk_score,
     risk_breakdown |-> risk_breakdown]
NoUpstream == Upstream("absent", "absent", "absent")

Event(id, cid, ip, port, probes, server, banner, cert) ==
    [id |-> id, collector_id |-> cid, ip |-> ip, port |-> port, probes |-> probes,
     server |-> server, banner |-> banner, cert |-> cert, upstream |-> NoUpstream]

\* The event dict after `event["enrichment"] = {}` and the assignments of the
\* enrichers' results: the key holds the pipeline's value, not the sender's.
EnrichedEvent(event, enrichment) ==
    [ev |-> [event EXCEPT !.upstream.enrichment = "absent"], enrichment |-> enrichment]

NoGeo == [present |-> FALSE, r |-> GeoResult(NONE, NONE, FALSE)]
Geo(r) == [present |-> TRUE, r |-> r]
NoMatches == [present |-> FALSE, list |-> <<>>]
Matches(l) == [present |-> TRUE, list |-> l]

Enrichment(geo, tls, cves) == [geoip |-> geo, tls_cert |-> tls, cve_matches |-> cves]

(***************************************************************************)
(* Ingester._enrich_event (src/ingest/main.py).  The result carries, beside *)
(* the enrichment or the exception, the enrichers that were run.            *)
(***************************************************************************)
_enrich_event(event, geoip_reader, cve_engine, lookup) ==
    LET geo == IF event.ip.t # "absent"
               THEN enrich_ip(geoip_reader, event.ip, lookup)
               ELSE Ok(NONE)
        geoRan == IF event.ip.t # "absent" THEN {"geoip"} ELSE {}
        tlsRuns == event.probes /\ event.cert.t \in {"bad", "der"}
        tls == IF tlsRuns THEN parse_certificate(event.cert) ELSE NoTlsCert
        tlsRan == IF tlsRuns THEN {"tls"} ELSE {}
        cve == IF event.probes THEN match_cves(cve_engine, event) ELSE Ok(<<>>)
        cveRan == IF event.probes THEN {"cve"} ELSE {}
    IN  IF geo.exc # "none"
        THEN [exc |-> geo.exc, val |-> Enrichment(NoGeo, NoTlsCert, NoMatches),
              ran |-> geoRan]
        ELSE LET g == IF event.ip.t # "absent" THEN Geo(geo.val) ELSE NoGeo
             IN  IF cve.exc # "none"
                 THEN [exc |-> cve.exc, val |-> Enrichment(g, tls, NoMatches),
                       ran |-> geoRan \cup tlsRan \cup cveRan]
                 ELSE [exc |-> "none",
                       val |-> Enrichment(g, tls,
                                  IF event.probes THEN Matches(cve.val) ELSE NoMatches),
                       ran |-> geoRan \cup tlsRan \cup cveRan]

(***************************************************************************)
(* src/ingest/scoring/risk_scorer.py                                       *)
(* get_risk_breakdown(event) reads the clock (datetime.now): now is the     *)
(* instant of the call.                                                     *)
(***************************************************************************)
Breakdown(p, s, v, c, e, f) ==
    [port_score |-> p, service_score |-> s, vuln_score |-> v,
     cert_score |-> c, exposure_score |-> e, freshness_score |-> f]

\* A port score without the Telnet supplement.
PortScore_flat(port) ==
    IF port.t = "int" /\ port.v \in {21, 22, 23, 80, 443, 3389} THEN 5 ELSE 0

PortScore(port) ==
    (IF port.t = "int" /\ port.v \in {21, 22, 23, 80, 443, 3389} THEN 5 ELSE 0)
    + (IF port.t = "int" /\ port.v \in {23} THEN 10 ELSE 0)

HttpScore(event) ==
    IF ~event.probes \/ event.server.t = "absent"
    THEN Ok(0)
    ELSE IF event.server.t = "nonstr"
    THEN Raise("AttributeError")
    ELSE IF Contains(NGINX, lower(event.server.s)) \/ Contains(APACHE, lower(event.server.s))
    THEN Ok(2)
    ELSE Ok(0)

SshScore(event) ==
    IF ~event.probes \/ event.banner.t = "absent"
    THEN Ok(0)
    ELSE IF event.banner.t = "nonstr"
    THEN Raise("AttributeError")
    ELSE IF ~Contains(OPENSSH, lower(event.banner.s))
    THEN Ok(5)
    ELSE Ok(0)

SeverityWeight(severity) ==
    CASE severity = "CRITICAL" -> 30
      [] severity = "HIGH" -> 20
      [] severity = "MEDIUM" -> 10
      [] severity = "LOW" -> 5
      [] OTHER -> 0

\* The `for cve in cve_matches` loop from index i on, acc being vuln_score so far.
RECURSIVE VulnLoop(_, _, _)
VulnLoop(cve_matches, i, acc) ==
    IF i > Len(cve_matches)
    THEN Ok(acc)
    ELSE IF cve_matches[i].severity.t # "str"
    THEN Raise("AttributeError")
    ELSE VulnLoop(cve_matches, i + 1,
                  acc + SeverityWeight(upper(cve_matches[i].severity.s)))

\* A certificate score in which the two findings exclude each other.
CertScore_exclusive(tls_cert, now) ==
    IF tls_cert.t # "cert" THEN 0
    ELSE IF tls_cert.self_signed THEN 10
    ELSE IF fromisoformat(tls_cert.valid_to) < now THEN 15
    ELSE 0

CertScore(tls_cert, now) ==
    IF tls_cert.t = "absent"
    THEN 0
    ELSE (IF tls_cert.t = "cert" /\ tls_cert.self_signed THEN 10 ELSE 0)
         + (IF tls_cert.t = "cert" /\ fromisoformat(tls_cert.valid_to) < now
            THEN 15 ELSE 0)

ExposureScore(geoip) ==
    IF geoip.present /\ geoip.r.country_name \notin {"PRIVATE", "LOCALHOST", "UNKNOWN"}
    THEN 5
    ELSE 0

\* A scorer with a component that depends on the instant of the call.
get_risk_breakdown_ageing(event, now) ==
    Ok(Breakdown(PortScore(event.ev.port), 0, 0,
                 CertScore(event.enrichment.tls_cert, now),
                 ExposureScore(event.enrichment.geoip), now))

\* event is [ev |-> the event, enrichment |-> its "enrichment" value].
get_risk_breakdown(event, now) ==
    LET http == HttpScore(event.ev)
        ssh == SshScore(event.ev)
        vuln == IF event.enrichment.cve_matches.present
                THEN VulnLoop(event.enrichment.cve_matches.list, 1, 0)
                ELSE Ok(0)
    IN  IF http.exc # "none" THEN http
        ELSE IF ssh.exc # "none" THEN ssh
        ELSE IF vuln.exc # "none" THEN vuln
        ELSE Ok(Breakdown(PortScore(event.ev.port),
                          http.val + ssh.val,
                          vuln.val,
                          CertScore(event.enrichment.tls_cert, now),
                          ExposureScore(event.enrichment.geoip),
                          0))

BreakdownSum(b) ==
    b.port_score + b.service_score + b.vuln_score
    + b.cert_score + b.exposure_score + b.freshness_score

Min(a, b) == IF a < b THEN a ELSE b
Max(a, b) == IF a > b THEN a ELSE b

calculate_risk_unclamped(event, now) ==
    LET breakdown == get_risk_breakdown(event, now)
    IN  IF breakdown.exc # "none" THEN breakdown ELSE Ok(BreakdownSum(breakdown.val))

calculate_risk(event, now) ==
    LET breakdown == get_risk_breakdown(event, now)
    IN  IF breakdown.exc # "none"
        THEN breakdown
        ELSE Ok(Min(100, Max(0, BreakdownSum(breakdown.val))))

(***************************************************************************)
(* Object store contents and signatures.                                   *)
(* A payload (the bytes of an event object) is [json, fmt, ev]: json says   *)
(* whether the bytes are valid JSON, ev is the event they encode and fmt    *)
(* tells apart byte strings that encode the same event (fmt = 0 is what     *)
(* json.dumps writes, fmt = 1 the same JSON with other whitespace).         *)
(* A signature (the bytes of a .sig object) is [wellformed, key, over]: the *)
(* Ed25519 signature made with the private key of public key `key` over the *)
(* bytes `over`; wellformed = FALSE are bytes that are no 64-byte signature.*)
(***************************************************************************)
Payload(json, fmt, ev) == [json |-> json, fmt |-> fmt, ev |-> ev]
Signature(wf, key, over) == [wellformed |-> wf, key |-> key, over |-> over]

json_loads(payload) == IF payload.json THEN Ok(payload.ev) ELSE Raise("JSONDecodeError")
json_dumps(ev) == Payload(TRUE, 0, ev)

b64encode(bytes) == [b64 |-> bytes]
b64decode(text) == text.b64

\* VerifyKey.verify(smessage, signature) of PyNaCl: "ok" or the exception.
nacl_verify(verify_key, smessage, signature) ==
    IF ~signature.wellformed THEN "ValueError"
    ELSE IF signature.key = verify_key /\ signature.over = smessage THEN "ok"
    ELSE "BadSignatureError"

\* self.public_keys is a set of [cid, key] with one entry per cid.
KeyOf(public_keys, collector_id) ==
    (CHOOSE e \in public_keys : e.cid = collector_id).key

(***************************************************************************)
(* Ingester._verify_signature                                              *)
(***************************************************************************)
_verify_signature_default_allow(public_keys, event_data, signature_b64, collector_id) ==
    IF collector_id \notin {e.cid : e \in public_keys}
    THEN TRUE
    ELSE nacl_verify(KeyOf(public_keys, collector_id), event_data,
                     b64decode(signature_b64)) = "ok"

_verify_signature_accepts_bad(public_keys, event_data, signature_b64, collector_id) ==
    IF collector_id \notin {e.cid : e \in public_keys}
    THEN FALSE
    ELSE nacl_verify(KeyOf(public_keys, collector_id), event_data,
                     b64decode(signature_b64)) \in {"ok", "BadSignatureError"}

_verify_signature(public_keys, event_data, signature_b64, collector_id) ==
    IF collector_id \notin {e.cid : e \in public_keys}
    THEN FALSE
    ELSE LET signature == b64decode(signature_b64)
             r == nacl_verify(KeyOf(public_keys, collector_id), event_data, signature)
         IN  CASE r = "ok" -> TRUE
               [] r = "BadSignatureError" -> FALSE
               [] OTHER -> FALSE

\* Ingester._deduplicate
_deduplicate(event) == FALSE

(***************************************************************************)
(* Ingester._compute_risk_score: calculate_risk runs at instant t1 and      *)
(* get_risk_breakdown at instant t2 >= t1.  doc is [ev, enrichment].        *)
(***************************************************************************)
FinalDoc_keeps_upstream(doc, score, breakdown) ==
    [ev |-> doc.ev, enrichment |-> doc.enrichment,
     risk_score |-> score, risk_breakdown |-> breakdown]

\* event["risk_score"] = ... ; event["risk_breakdown"] = ... : the two keys hold
\* the computed values, whatever the incoming event carried under them.
FinalDoc(doc, score, breakdown) ==
    [ev |-> [doc.ev EXCEPT !.upstream.risk_score = "absent",
                           !.upstream.risk_breakdown = "absent"],
     enrichment |-> doc.enrichment,
     risk_score |-> score, risk_breakdown |-> breakdown]

_compute_risk_score(doc, t1, t2) ==
    LET score == calculate_risk(doc, t1)
        breakdown == get_risk_breakdown(doc, t2)
    IN  IF score.exc # "none" THEN score
        ELSE IF breakdown.exc # "none" THEN breakdown
        ELSE Ok(FinalDoc(doc, score.val, breakdown.val))

(***************************************************************************)
(* The Sink.  index is a set of [index, id, doc] (the documents of the      *)
(* OpenSearch indices), indices the set of [name, mapping] that exist, an   *)
(* index name being the prefix followed by the month of the write.          *)
(* fault is the step of the write that fails: "none", "exists", "create"    *)
(* or "index".                                                              *)
(***************************************************************************)
Month(t) == t \div TicksPerMonth

IndexName(now) == <<"asset-intelligence-", Month(now)>>

Upsert_keeps_old(index, index_name, id, doc) ==
    index \cup {[index |-> index_name, id |-> id, doc |-> doc]}

Upsert(index, index_name, id, doc) ==
    {d \in index : ~(d.index = index_name /\ d.id = id)}
    \cup {[index |-> index_name, id |-> id, doc |-> doc]}

\* Ingester._get_index_mapping: the typed fields of the fixed mapping.
_get_index_mapping ==
    [target_ip |-> "ip", geoip_location |-> "geo_point", cve_matches |-> "nested"]

\* opensearch_client.indices.exists and indices.create
IndicesExists(indices, index_name) == \E i \in indices : i.name = index_name
IndicesCreate(indices, index_name, body) ==
    indices \cup {[name |-> index_name, mapping |-> body]}

\* A write that indexes the document without looking for the index.
IndexWrite_no_create(index, indices, doc, now, fault) ==
    IF fault # "none"
    THEN [index |-> index, indices |-> indices, exc |-> "TransportError"]
    ELSE [index |-> Upsert(index, IndexName(now), doc.ev.id, doc),
          indices |-> indices, exc |-> "none"]

\* The body of the try block of _write_to_opensearch.
IndexWrite(index, indices, doc, now, fault) ==
    LET index_name == IndexName(now)
        created == IF IndicesExists(indices, index_name)
                   THEN indices
                   ELSE IndicesCreate(indices, index_name, _get_index_mapping)
    IN  IF fault = "exists"
        THEN [index |-> index, indices |-> indices, exc |-> "ConnectionError"]
        ELSE IF ~IndicesExists(indices, index_name) /\ fault = "create"
        THEN [index |-> index, indices |-> indices, exc |-> "TransportError"]
        ELSE IF fault = "index"
        THEN [index |-> index, indices |-> created, exc |-> "TransportError"]
        ELSE [index |-> Upsert(index, index_name, doc.ev.id, doc),
              indices |-> created, exc |-> "none"]

\* logged is the exception that `except Exception` logs, exc the one that leaves
\* the method.
_write_to_opensearch_propagates(index, indices, doc, now, fault) ==
    LET r == IndexWrite(index, indices, doc, now, fault)
    IN  [index |-> r.index, indices |-> r.indices, exc |-> r.exc, logged |-> "none"]

_write_to_opensearch(index, indices, doc, now, fault) ==
    LET r == IndexWrite(index, indices, doc, now, fault)
    IN  [index |-> r.index, indices |-> r.indices, exc |-> "none", logged |-> r.exc]

(***************************************************************************)
(* The archive directory: a set of [id, content], one entry per file        *)
(* <id>.json; content is <<doc>> for a file holding the canonical JSON of   *)
(* doc and <<>> for a file left empty.  fault is the step of the write that *)
(* fails: "none", "open" (the file cannot be opened) or "write" (the file   *)
(* was opened, which truncates it, and the write failed).                   *)
(***************************************************************************)
ArchiveExists(archive, event_id) == \E a \in archive : a.id = event_id

ArchivePut(archive, event_id, content) ==
    {a \in archive : a.id # event_id} \cup {[id |-> event_id, content |-> content]}

\* json.dumps(final_doc, sort_keys=True).encode('utf-8')
canonical_json(final_doc) == <<final_doc>>

_archive_canonical_json(archive, event_id, canonical, fault) ==
    CASE fault = "open" -> [archive |-> archive, exc |-> "OSError"]
      [] fault = "write" -> [archive |-> ArchivePut(archive, event_id, <<>>),
                             exc |-> "OSError"]
      [] OTHER -> [archive |-> ArchivePut(archive, event_id, canonical),
                   exc |-> "none"]

(***************************************************************************)
(* Object names are sequences of tokens: "event_a.json" is                  *)
(* <<"event_", "a", ".json">> and its signature object has ".sig" appended. *)
(***************************************************************************)
EndsWith(name, token) == Len(name) > 0 /\ name[Len(name)] = token

\* object_name.replace("event_", "").replace(".json", "")
NameId(object_name) == SelectSeq(object_name, LAMBDA t : t \notin {"event_", ".json"})

\* minio get_object: objects is a set of [name, bytes]; fault is the failure of
\* the call ("none", or the exception it raises).
HasObject(objects, name) == \E o \in objects : o.name = name
ObjectBytes(objects, name) == (CHOOSE o \in objects : o.name = name).bytes

get_object(objects, name, fault) ==
    IF fault # "none" THEN Raise(fault)
    ELSE IF ~HasObject(objects, name) THEN Raise("S3Error")
    ELSE Ok(ObjectBytes(objects, name))

(***************************************************************************)
(* Ingester.process_event_file.  self is the Ingester with its stores:      *)
(* [objects, sigs, public_keys, geoip_reader, cve_engine, index, indices,   *)
(* archive, clock].  f gives what the environment does during the call:     *)
(* [get, sig, lookup, index, archive, dt].                                  *)
(* The result gives the stores after the call and what the call did:        *)
(* outcome (where it ended), exc (the exception that ended it), verdict of  *)
(* _verify_signature, the enrichers run, whether scoring completed, whether *)
(* the index write and the archive write were attempted, the document       *)
(* handed to the Sink (doc, <<>> when none was) and the exception           *)
(* _write_to_opensearch logged.                                             *)
(***************************************************************************)
ExceptionClasses ==
    {"S3Error", "JSONDecodeError", "ConnectionError", "TransportError", "OSError",
     "AttributeError", "TypeError", "ValueError"}

\* The except clauses of process_event_file: S3Error, json.JSONDecodeError, Exception.
HandlesOnlyNamed(exc) == exc = "S3Error" \/ exc = "JSONDecodeError"

Handles(exc) == exc = "S3Error" \/ exc = "JSONDecodeError" \/ exc \in ExceptionClasses

\* The bytes process_event_file hands to _verify_signature.
VerifiedBytesReserialized(event_payload) ==
    IF event_payload.json THEN json_dumps(event_payload.ev) ELSE event_payload

VerifiedBytes(event_payload) == event_payload

Ended(self, outcome, exc, verdict, ran, scored) ==
    [outcome |-> outcome, exc |-> exc, verdict |-> verdict, ran |-> ran,
     scored |-> scored, index_tried |-> FALSE, archive_tried |-> FALSE,
     doc |-> <<>>, index_logged |-> "none",
     index |-> self.index, indices |-> self.indices, archive |-> self.archive,
     clock |-> self.clock]

SinkWrites(self, final_doc, event_id, ran, f) ==
    LET now == self.clock + f.dt
        w == _write_to_opensearch(self.index, self.indices, final_doc, now, f.index)
    IN  IF w.exc # "none"
        THEN [outcome |-> "index_raised", exc |-> w.exc, verdict |-> "accepted",
              ran |-> ran, scored |-> TRUE, index_tried |-> TRUE,
              archive_tried |-> FALSE, doc |-> <<final_doc>>, index_logged |-> w.logged,
              index |-> w.index, indices |-> w.indices,
              archive |-> self.archive, clock |-> now]
        ELSE LET a == _archive_canonical_json(self.archive, event_id,
                                              canonical_json(final_doc), f.archive)
             IN  [outcome |-> IF a.exc = "none" THEN "written" ELSE "archive_failed",
                  exc |-> a.exc, verdict |-> "accepted", ran |-> ran, scored |-> TRUE,
                  index_tried |-> TRUE, archive_tried |-> TRUE,
                  doc |-> <<final_doc>>, index_logged |-> w.logged,
                  index |-> w.index, indices |-> w.indices, archive |-> a.archive,
                  clock |-> now]

AfterVerify(self, event, f) ==
    IF _deduplicate(event)
    THEN Ended(self, "duplicate", "none", "accepted", {}, FALSE)
    ELSE LET e == _enrich_event(event, self.geoip_reader, self.cve_engine, f.lookup)
         IN  IF e.exc # "none"
             THEN Ended(self, "enrich_failed", e.exc, "accepted", e.ran, FALSE)
             ELSE LET d == _compute_risk_score(EnrichedEvent(event, e.val),
                                               self.clock,
                                               self.clock + f.dt)
                  IN  IF d.exc # "none"
                      THEN Ended(self, "score_failed", d.exc, "accepted", e.ran, FALSE)
                      ELSE SinkWrites(self, d.val, event.id, e.ran, f)

ProcessBody(self, object_name, f) ==
    LET response == get_object(self.objects, object_name, f.get)
    IN  IF response.exc # "none"
        THEN Ended(self, "fetch_failed", response.exc, "not_reached", {}, FALSE)
        ELSE IF ~EndsWith(object_name, ".json")
        THEN Ended(self, "bad_name", "none", "not_reached", {}, FALSE)
        ELSE LET sig_response == get_object(self.sigs, object_name \o <<".sig">>, f.sig)
             IN  IF sig_response.exc = "S3Error"
                 THEN Ended(self, "no_signature", "none", "not_reached", {}, FALSE)
                 ELSE IF sig_response.exc # "none"
                 THEN Ended(self, "sig_fetch_failed", sig_response.exc, "not_reached",
                            {}, FALSE)
                 ELSE LET signature_b64 == b64encode(sig_response.val)
                          event == json_loads(response.val)
                      IN  IF event.exc # "none"
                          THEN Ended(self, "invalid_json", event.exc, "not_reached",
                                     {}, FALSE)
                          ELSE IF event.val.id = <<>> \/ event.val.collector_id = ""
                          THEN Ended(self, "missing_fields", "none", "not_reached",
                                     {}, FALSE)
                          ELSE IF ~_verify_signature(self.public_keys,
                                                     VerifiedBytes(response.val),
                                                     signature_b64,
                                                     event.val.collector_id)
                          THEN Ended(self, "rejected", "none", "rejected", {}, FALSE)
                          ELSE AfterVerify(self, event.val, f)

\* The result of the call: escaped is the exception that leaves the method.
process_event_file(self, object_name, f) ==
    LET r == ProcessBody(self, object_name, f)
    IN  r @@ [escaped |-> IF r.exc = "none" \/ Handles(r.exc) THEN "none" ELSE r.exc]

(***************************************************************************)
(* Sample data.                                                            *)
(***************************************************************************)
SrvNginx == Str(<<"N", "g", "i", "n", "x">>)
SrvApache == Str(<<"a", "p", "a", "c", "h", "e">>)
SrvOther == Str(<<"i", "i", "s">>)
BanOpenSSH == Str(<<"O", "p", "e", "n", "S", "S", "H">>)
BanOther == Str(<<"d", "r", "o", "p">>)

RuleNginx == Rule("CVE-NGINX", Sev("critical"), Pattern(NGINX), NoRegex)
RuleBad == Rule("CVE-BAD", Sev("HIGH"), BadRegex, NoRegex)
RuleSsh == Rule("CVE-SSH", Sev("CRITICAL"), NoRegex, Pattern(<<"d", "r", "o", "p">>))
RuleBoth == Rule("CVE-BOTH", Sev("CRITICAL"), Pattern(<<"n">>), Pattern(<<"o">>))
RuleNoSev == Rule("CVE-NOSEV", SevAbsent, Pattern(<<"i">>), NoRegex)
RuleNonStr == Rule("CVE-NONSTR", Sev("LOW"), NonStrRegex, NoRegex)
RuleSevNumber == Rule("CVE-SEVNUM", SevNonStr, Pattern(<<"n">>), NoRegex)

\* The event ev sent with the values u under the derived keys.
WithUpstream(ev, u) == [ev EXCEPT !.upstream = u]

EvTelnet(id, cid) ==
    Event(id, cid, Ip(8, 8), IntV(23), FALSE, Absent, Absent, NoCert)
EvWeb(id, cid) ==
    Event(id, cid, Ip(172, 17), IntV(443), TRUE, SrvNginx, Absent, Cert("der", TRUE, 1))
EvOddHeader(id, cid) ==
    Event(id, cid, Ip(10, 0), IntV(80), TRUE, NonStr, Absent, Cert("bad", FALSE, 0))
EvOddIp(id, cid) ==
    Event(id, cid, IpNonStr, IntV(22), TRUE, SrvApache, BanOther, Cert("der", FALSE, 2))

NameA == <<"event_", "a", ".json">>
NameB == <<"event_", "b", ".json">>
SigName(name) == name \o <<".sig">>
\* The order in which list_objects returns the names.
ListingOrder == <<NameA, SigName(NameA), NameB, SigName(NameB)>>

Garbage == Payload(FALSE, 0, EvTelnet(<<>>, ""))
PayA == Payload(TRUE, 0, EvTelnet(<<"a">>, "c1"))
PayASpaced == Payload(TRUE, 1, EvTelnet(<<"a">>, "c1"))

Genuine(key, payload) == Signature(TRUE, key, payload)
Malformed == Signature(FALSE, "k1", Garbage)

NoObject == [has |-> FALSE, bytes |-> Garbage]
NoSig == [has |-> FALSE, bytes |-> Malformed]
Object(b) == [has |-> TRUE, bytes |-> b]

Signed(key, ev) == <<Object(Payload(TRUE, 0, ev)), Object(Genuine(key, Payload(TRUE, 0, ev)))>>

\* What the bucket may hold under the name event_a.json and its .sig name.
BucketA ==
    { Signed("k1", EvTelnet(<<"a">>, "c1")),
      <<Object(PayASpaced), Object(Genuine("k1", PayA))>>,
      <<Object(PayASpaced), Object(Genuine("k1", PayASpaced))>>,
      <<Object(PayA), NoSig>>,
      <<Object(PayA), Object(Genuine("k2", PayA))>>,
      <<Object(PayA), Object(Malformed)>>,
      <<Object(Garbage), Object(Genuine("k1", Garbage))>>,
      Signed("k1", EvTelnet(<<"b">>, "c1")),
      Signed("k1", EvTelnet(<<>>, "c1")) }

\* What the bucket may hold under the name event_b.json and its .sig name.
BucketB ==
    { Signed("k1", EvWeb(<<"a">>, "c1")),
      Signed("k1", EvWeb(<<"b">>, "c1")),
      Signed("k2", EvTelnet(<<"b">>, "c2")),
      <<Object(Payload(TRUE, 0, EvWeb(<<"b">>, "c1"))),
        Object(Genuine("k2", Payload(TRUE, 0, EvWeb(<<"b">>, "c1"))))>>,
      <<Object(Garbage), Object(Genuine("k1", Garbage))>>,
      Signed("k1", EvOddHeader(<<"b">>, "c1")),
      Signed("k1", EvOddIp(<<"b">>, "c1")) }

\* The buckets the model starts from: what is stored under the two names.
Buckets ==
    {<<a, <<NoObject, NoSig>>>> : a \in BucketA}
    \cup {<<Signed("k1", EvTelnet(<<"a">>, "c1")), b>> : b \in BucketB}
    \cup {<<Signed("k1", EvTelnet(<<"b">>, "c1")), Signed("k1", EvWeb(<<"b">>, "c1"))>>}

Stored(name, o) == IF o.has THEN {[name |-> name, bytes |-> o.bytes]} ELSE {}

Registry == {[cid |-> "c1", key |-> "k1"]}

(***************************************************************************)
(* State.                                                                  *)
(***************************************************************************)
VARIABLES
    objects,        \* the event objects of the bucket: a set of [name, bytes]
    sigs,           \* the signature objects of the bucket: a set of [name, bytes]
    public_keys,    \* Ingester.public_keys
    geoip_reader,   \* Ingester.geoip_reader
    cve_engine,     \* Ingester.cve_engine
    index,          \* the documents of the OpenSearch indices
    indices,        \* the OpenSearch indices that exist
    archive,        \* the files of the archive directory
    clock,          \* the current instant
    pc,             \* where run_ingestion_loop is: "list", "iterate" or "sleep"
    listing,        \* the object names of the current listing
    cursor,         \* the position of the loop in the listing
    last,           \* what the last step of the loop did
    sc              \* the scoring harness: an event, its enrichment and its score

vars == <<objects, sigs, public_keys, geoip_reader, cve_engine, index, indices,
          archive, clock, pc, listing, cursor, last, sc>>

config == <<objects, sigs, public_keys, geoip_reader, cve_engine>>
stores == <<index, indices, archive>>

Self == [objects |-> objects, sigs |-> sigs, public_keys |-> public_keys,
         geoip_reader |-> geoip_reader, cve_engine |-> cve_engine, index |-> index,
         indices |-> indices, archive |-> archive, clock |-> clock]

NoRun == [outcome |-> "none", exc |-> "none", escaped |-> "none",
          verdict |-> "not_reached", ran |-> {}, scored |-> FALSE,
          index_tried |-> FALSE, archive_tried |-> FALSE, doc |-> <<>>,
          index_logged |-> "none"]

\* The record of a step: had_index and had_archive tell whether, before the step,
\* the index of the month of the write held a document of the id written, and the
\* archive a file of that id.
Last(step, name, r, had_index, had_archive) ==
    [step |-> step, object |-> name, outcome |-> r.outcome, exc |-> r.exc,
     escaped |-> r.escaped, verdict |-> r.verdict, ran |-> r.ran, scored |-> r.scored,
     index_tried |-> r.index_tried, archive_tried |-> r.archive_tried,
     doc |-> r.doc, index_logged |-> r.index_logged,
     had_index |-> had_index, had_archive |-> had_archive]

Step(step, name) == Last(step, name, NoRun, FALSE, FALSE)

NoEnrichment == Enrichment(NoGeo, NoTlsCert, NoMatches)
NoBreakdown == Breakdown(0, 0, 0, 0, 0, 0)

\* A second evaluation of the scorer: its instant and what it returned.
Evaluation(now, score, breakdown) == [now |-> now, score |-> score, breakdown |-> breakdown]
NoEvaluation == Evaluation(0, 0, NoBreakdown)

ScState(phase, ev, reader, rules, now, enrichment, exc, ran, score, breakdown) ==
    [phase |-> phase, ev |-> ev, reader |-> reader, rules |-> rules, now |-> now,
     enrichment |-> enrichment, exc |-> exc, ran |-> ran, score |-> score,
     breakdown |-> breakdown, doc |-> <<>>, again |-> NoEvaluation, lookup |-> "none"]

ScIdle == ScState("idle", EvTelnet(<<>>, ""), "none", <<>>, 0, NoEnrichment, "none",
                  {}, 0, NoBreakdown)

Init ==
    /\ \E bucket \in Buckets :
          LET a == bucket[1]
              b == bucket[2]
          IN  /\ objects = Stored(NameA, a[1]) \cup Stored(NameB, b[1])
              /\ sigs = Stored(SigName(NameA), a[2]) \cup Stored(SigName(NameB), b[2])
    /\ public_keys = Registry
    /\ geoip_reader \in {"none", "loaded"}
    /\ cve_engine = <<RuleBad, RuleNginx>>
    /\ index = {}
    /\ indices = {}
    /\ archive = {}
    /\ clock = 0
    /\ pc = "list"
    /\ listing = <<>>
    /\ cursor = 1
    /\ last = Step("init", <<>>)
    /\ sc = ScIdle

(***************************************************************************)
(* Ingester.run_ingestion_loop, one action per step of the loop.            *)
(***************************************************************************)
BucketNames == {o.name : o \in objects} \cup {o.name : o \in sigs}

\* minio list_objects succeeds: the loop starts on a new listing.
ListObjects ==
    /\ pc = "list"
    /\ listing' = SelectSeq(ListingOrder, LAMBDA n : n \in BucketNames)
    /\ cursor' = 1
    /\ pc' = "iterate"
    /\ last' = Step("list", <<>>)
    /\ UNCHANGED <<config, stores, clock, sc>>

\* The listing fails, at the call or while it is iterated (S3Error or another
\* exception): the except clauses of the loop log it and the loop sleeps.
ListingFails ==
    /\ pc \in {"list", "iterate"}
    /\ pc' = "sleep"
    /\ last' = Step("list_failed", <<>>)
    /\ UNCHANGED <<config, stores, clock, listing, cursor, sc>>

\* The body of `for obj in objects` for the object at the cursor.
LoopBody ==
    /\ pc = "iterate"
    /\ cursor <= Len(listing)
    /\ LET object_name == listing[cursor]
           event_id == NameId(object_name)
       IN  IF ~(EndsWith(object_name, ".json") /\ ~EndsWith(object_name, ".sig"))
           THEN /\ last' = Step("skip_name", object_name)
                /\ cursor' = cursor + 1
                /\ UNCHANGED <<pc, stores, clock>>
           ELSE IF ArchiveExists(archive, event_id)
           THEN /\ last' = Step("skip_archived", object_name)
                /\ cursor' = cursor + 1
                /\ UNCHANGED <<pc, stores, clock>>
           ELSE \E get \in {"none", "ConnectionError"},
                   sig \in {"none", "ConnectionError"},
                   lookup \in {"hit", "error"},
                   ifault \in {"none", "exists", "create", "index"},
                   afault \in {"none", "open", "write"},
                   dt \in 0..1 :
                   /\ clock + dt <= MaxClock
                   /\ \E r \in {process_event_file(Self, object_name,
                                     [get |-> get, sig |-> sig, lookup |-> lookup,
                                      index |-> ifault, archive |-> afault,
                                      dt |-> dt])} :
                       /\ index' = r.index
                       /\ indices' = r.indices
                       /\ archive' = r.archive
                       /\ clock' = r.clock
                       /\ last' = Last("process", object_name, r,
                                       r.doc # <<>> /\ \E d \in index :
                                           /\ d.id = r.doc[1].ev.id
                                           /\ d.index = IndexName(r.clock),
                                       r.doc # <<>> /\
                                           ArchiveExists(archive, r.doc[1].ev.id))
                       /\ IF r.escaped = "none"
                          THEN cursor' = cursor + 1 /\ pc' = pc
                          ELSE cursor' = cursor /\ pc' = "sleep"
    /\ UNCHANGED <<config, listing, sc>>

\* The listing is exhausted: time.sleep(10).
EndOfListing ==
    /\ pc = "iterate"
    /\ cursor > Len(listing)
    /\ pc' = "sleep"
    /\ last' = Step("end_of_listing", <<>>)
    /\ UNCHANGED <<config, stores, clock, listing, cursor, sc>>

\* time.sleep(10): time passes (d ticks), then `while True` starts the next
\* poll cycle.
Sleep ==
    /\ pc = "sleep"
    /\ \E d \in 0..1 : clock + d <= MaxClock /\ clock' = clock + d
    /\ pc' = "list"
    /\ last' = Step("sleep", <<>>)
    /\ UNCHANGED <<config, stores, listing, cursor, sc>>

Next ==
    \/ ListObjects
    \/ ListingFails
    \/ LoopBody
    \/ EndOfListing
    \/ Sleep

Spec == Init /\ [][Next]_vars

(***************************************************************************)
(* The scoring harness: _enrich_event, then _compute_risk_score, applied to *)
(* an event, a GeoIP reader and a rule set drawn from the sample sets.      *)
(***************************************************************************)
SampleRules == {RuleNginx, RuleBad, RuleBoth, RuleNonStr, RuleSevNumber}

RECURSIVE SeqsUpTo(_, _)
SeqsUpTo(S, n) ==
    IF n = 0 THEN {<<>>}
    ELSE SeqsUpTo(S, n - 1)
         \cup {Append(q, x) : q \in {r \in SeqsUpTo(S, n - 1) : Len(r) = n - 1}, x \in S}

SampleEvents ==
    {Event(<<"a">>, "c1", ip, port, TRUE, server, banner, cert) :
        ip \in {Ip(8, 8), Ip(10, 0), IpNonStr},
        port \in {IntV(23), IntV(80), IntV(8080), NoInt},
        server \in {Absent, SrvNginx, NonStr},
        banner \in {Absent, Str(<<>>), BanOpenSSH, BanOther},
        cert \in {NoCert, Cert("bad", FALSE, 0), Cert("der", TRUE, 1)}}
    \cup {Event(<<"a">>, "c1", IpAbsent, IntV(23), FALSE, Absent, Absent, NoCert)}
    \cup {WithUpstream(Event(<<"a">>, "c1", Ip(8, 8), IntV(23), TRUE, SrvNginx, BanOther,
                              cert), u) :
            cert \in {NoCert, Cert("der", TRUE, 1), Cert("der", FALSE, 1)},
            u \in {NoUpstream, Upstream("forged", "forged", "forged"),
                   Upstream("absent", "forged", "absent")}}

ScoreInit ==
    /\ objects = {}
    /\ sigs = {}
    /\ public_keys = Registry
    /\ geoip_reader = "none"
    /\ cve_engine = <<>>
    /\ index = {}
    /\ indices = {}
    /\ archive = {}
    /\ clock = 0
    /\ pc = "list"
    /\ listing = <<>>
    /\ cursor = 1
    /\ last = Step("init", <<>>)
    /\ \E ev \in SampleEvents, reader \in {"none", "loaded"},
          rules \in SeqsUpTo(SampleRules, MaxRules) :
          sc = ScState("input", ev, reader, rules, 0, NoEnrichment, "none", {}, 0,
                       NoBreakdown)

ScEnrich ==
    /\ sc.phase = "input"
    /\ \E lookup \in Lookups :
          LET e == _enrich_event(sc.ev, sc.reader, sc.rules, lookup)
          IN  sc' = [sc EXCEPT !.phase = IF e.exc = "none" THEN "enriched" ELSE "failed",
                               !.enrichment = e.val, !.exc = e.exc, !.ran = e.ran]
    /\ UNCHANGED <<config, stores, clock, pc, listing, cursor, last>>

\* Time passes between the event's observation and its scoring.
ScWait ==
    /\ sc.phase = "enriched"
    /\ sc.now < MaxClock
    /\ sc' = [sc EXCEPT !.now = sc.now + 1]
    /\ UNCHANGED <<config, stores, clock, pc, listing, cursor, last>>

ScScore ==
    /\ sc.phase = "enriched"
    /\ \E dt \in 0..1 :
          LET d == _compute_risk_score(EnrichedEvent(sc.ev, sc.enrichment),
                                       sc.now, sc.now + dt)
          IN  /\ sc.now + dt <= MaxClock
              /\ sc' = IF d.exc # "none"
                       THEN [sc EXCEPT !.phase = "failed", !.exc = d.exc]
                       ELSE [sc EXCEPT !.phase = "scored", !.now = sc.now + dt,
                                       !.score = d.val.risk_score,
                                       !.breakdown = d.val.risk_breakdown,
                                       !.doc = <<d.val>>]
    /\ UNCHANGED <<config, stores, clock, pc, listing, cursor, last>>

\* The scorer is called again on the same enriched event, at the same or a later
\* instant.
ScRescore ==
    /\ sc.phase = "scored"
    /\ \E t \in sc.now..MaxClock :
          LET score == calculate_risk(sc.doc[1], t)
              breakdown == get_risk_breakdown(sc.doc[1], t)
          IN  /\ score.exc = "none"
              /\ breakdown.exc = "none"
              /\ sc' = [sc EXCEPT !.phase = "rescored",
                                  !.again = Evaluation(t, score.val, breakdown.val)]
    /\ UNCHANGED <<config, stores, clock, pc, listing, cursor, last>>

ScoreNext ==
    \/ ScEnrich
    \/ ScWait
    \/ ScScore
    \/ ScRescore

ScoreSpec == ScoreInit /\ [][ScoreNext]_vars

(***************************************************************************)
(* Construction of the Ingester (Ingester.__init__) from the three files it *)
(* loads.  A file is "ok", "missing", "unreadable" (it cannot be opened) or *)
(* "malformed" (its content does not parse).                                *)
(***************************************************************************)
FileStates == {"ok", "missing", "unreadable", "malformed"}

\* open(path) followed by the parser of the content: the content, or the
\* exception raised.
ReadFile(file, content) ==
    CASE file = "ok" -> Ok(content)
      [] file = "missing" -> Raise("FileNotFoundError")
      [] file = "unreadable" -> Raise("PermissionError")
      [] OTHER -> Raise("ValueError")

\* A loader that handles the missing file only.
load_cve_rules_missing_only(file, content) ==
    LET r == ReadFile(file, content)
    IN  IF r.exc = "none" THEN r
        ELSE IF r.exc = "FileNotFoundError" THEN Ok(<<>>)
        ELSE r

\* Ingester._load_public_keys: except FileNotFoundError, except Exception.
_load_public_keys(file, content) ==
    LET r == ReadFile(file, content)
    IN  IF r.exc = "none" THEN r
        ELSE IF r.exc = "FileNotFoundError" THEN Ok({})
        ELSE Ok({})

\* geoip.load_geoip_db: except AddressNotFoundError, except Exception.
load_geoip_db(file) ==
    LET r == ReadFile(file, "loaded")
    IN  IF r.exc = "none" THEN r
        ELSE IF r.exc = "AddressNotFoundError" THEN Ok("none")
        ELSE Ok("none")

\* cve_rules.load_cve_rules: except FileNotFoundError, except Exception.
load_cve_rules(file, content) ==
    LET r == ReadFile(file, content)
    IN  IF r.exc = "none" THEN r
        ELSE IF r.exc = "FileNotFoundError" THEN Ok(<<>>)
        ELSE Ok(<<>>)

Files(phase, keys, geoipdb, rules) ==
    [phase |-> phase, keys |-> keys, geoipdb |-> geoipdb, rules |-> rules]

\* The buckets the Ingester is started on.
StartBuckets ==
    {<<Signed("k1", EvTelnet(<<"a">>, "c1")), Signed("k1", EvWeb(<<"b">>, "c1"))>>,
     <<Signed("k1", EvTelnet(<<"a">>, "c1")), <<NoObject, NoSig>>>>}

\* Before construction: the files are what they are, the process holds nothing.
StartInit ==
    /\ \E bucket \in StartBuckets :
          LET a == bucket[1]
              b == bucket[2]
          IN  /\ objects = Stored(NameA, a[1]) \cup Stored(NameB, b[1])
              /\ sigs = Stored(SigName(NameA), a[2]) \cup Stored(SigName(NameB), b[2])
    /\ public_keys = {}
    /\ geoip_reader = "none"
    /\ cve_engine = <<>>
    /\ index = {}
    /\ indices = {}
    /\ archive = {}
    /\ clock = 0
    /\ pc = "start"
    /\ listing = <<>>
    /\ cursor = 1
    /\ last = Step("init", <<>>)
    /\ \E k \in FileStates, g \in FileStates, r \in FileStates :
          sc = Files("start", k, g, r)

\* Ingester(config): the three loads; an exception that leaves one of them ends
\* the process.
Construct ==
    /\ pc = "start"
    /\ LET keys == _load_public_keys(sc.keys, Registry)
           reader == load_geoip_db(sc.geoipdb)
           rules == load_cve_rules(sc.rules, <<RuleBad, RuleNginx>>)
       IN  IF keys.exc # "none" \/ reader.exc # "none" \/ rules.exc # "none"
           THEN /\ pc' = "crashed"
                /\ UNCHANGED <<public_keys, geoip_reader, cve_engine>>
           ELSE /\ pc' = "list"
                /\ public_keys' = keys.val
                /\ geoip_reader' = reader.val
                /\ cve_engine' = rules.val
    /\ sc' = [sc EXCEPT !.phase = "constructed"]
    /\ last' = Step("construct", <<>>)
    /\ UNCHANGED <<objects, sigs, stores, clock, listing, cursor>>

StartNext ==
    \/ Construct
    \/ Next

StartSpec == StartInit /\ [][StartNext]_vars

(***************************************************************************)
(* Two Ingester processes on the same bucket, the same index and the same   *)
(* archive directory.  Each runs run_ingestion_loop; between the            *)
(* os.path.exists of the loop and the call of process_event_file the other  *)
(* process may take steps.  The bucket, the index and the archive answer    *)
(* every call, except that an index request may fail.                       *)
(***************************************************************************)
WorkerIds == {1, 2}

\* A process: where its loop is, the listing it iterates, and the ids of the
\* documents it has written to the index.
Worker(at, names, position, indexed) ==
    [pc |-> at, listing |-> names, cursor |-> position, indexed |-> indexed]

Workers(w) == [phase |-> "workers", w |-> w]

WorkersInit ==
    /\ \E bucket \in StartBuckets :
          LET a == bucket[1]
              b == bucket[2]
          IN  /\ objects = Stored(NameA, a[1]) \cup Stored(NameB, b[1])
              /\ sigs = Stored(SigName(NameA), a[2]) \cup Stored(SigName(NameB), b[2])
    /\ public_keys = Registry
    /\ geoip_reader = "loaded"
    /\ cve_engine = <<RuleBad, RuleNginx>>
    /\ index = {}
    /\ indices = {}
    /\ archive = {}
    /\ clock = 0
    /\ pc = "list"
    /\ listing = <<>>
    /\ cursor = 1
    /\ last = Step("init", <<>>)
    /\ sc = Workers([w \in WorkerIds |-> Worker("list", <<>>, 1, {})])

\* minio list_objects in one process.
WorkerLists ==
    /\ \E w \in WorkerIds :
          /\ sc.w[w].pc = "list"
          /\ sc' = [sc EXCEPT !.w[w].pc = "iterate",
                              !.w[w].cursor = 1,
                              !.w[w].listing =
                                  SelectSeq(ListingOrder, LAMBDA n : n \in BucketNames)]
    /\ UNCHANGED <<config, stores, clock, pc, listing, cursor, last>>

\* The head of the loop body for the object at the cursor: the test of the
\* name and os.path.exists(archived_file_path).
WorkerChecks ==
    /\ \E w \in WorkerIds :
          /\ sc.w[w].pc = "iterate"
          /\ sc.w[w].cursor <= Len(sc.w[w].listing)
          /\ LET object_name == sc.w[w].listing[sc.w[w].cursor]
                 event_id == NameId(object_name)
             IN  IF ~(EndsWith(object_name, ".json") /\ ~EndsWith(object_name, ".sig"))
                 THEN sc' = [sc EXCEPT !.w[w].cursor = @ + 1]
                 ELSE IF ArchiveExists(archive, event_id)
                 THEN sc' = [sc EXCEPT !.w[w].cursor = @ + 1]
                 ELSE sc' = [sc EXCEPT !.w[w].pc = "process"]
    /\ UNCHANGED <<config, stores, clock, pc, listing, cursor, last>>

\* self.process_event_file(bucket, obj.object_name) in one process.
WorkerProcesses ==
    /\ \E w \in WorkerIds, ifault \in {"none", "index"} :
          /\ sc.w[w].pc = "process"
          /\ \E r \in {process_event_file(Self, sc.w[w].listing[sc.w[w].cursor],
                            [get |-> "none", sig |-> "none", lookup |-> "hit",
                             index |-> ifault, archive |-> "none", dt |-> 0])} :
                /\ index' = r.index
                /\ indices' = r.indices
                /\ archive' = r.archive
                /\ clock' = r.clock
                /\ sc' = [sc EXCEPT
                            !.w[w].pc = IF r.escaped = "none" THEN "iterate" ELSE "sleep",
                            !.w[w].cursor = IF r.escaped = "none" THEN @ + 1 ELSE @,
                            !.w[w].indexed =
                                IF r.doc # <<>> /\ r.index_tried /\ r.index_logged = "none"
                                THEN @ \cup {r.doc[1].ev.id} ELSE @]
    /\ UNCHANGED <<config, pc, listing, cursor, last>>

\* The listing of one process is exhausted: time.sleep(10).
WorkerEndOfListing ==
    /\ \E w \in WorkerIds :
          /\ sc.w[w].pc = "iterate"
          /\ sc.w[w].cursor > Len(sc.w[w].listing)
          /\ sc' = [sc EXCEPT !.w[w].pc = "sleep"]
    /\ UNCHANGED <<config, stores, clock, pc, listing, cursor, last>>

\* The sleep of one process ends; time may have passed.
WorkerSleeps ==
    /\ \E w \in WorkerIds, d \in 0..1 :
          /\ sc.w[w].pc = "sleep"
          /\ clock + d <= MaxClock
          /\ clock' = clock + d
          /\ sc' = [sc EXCEPT !.w[w].pc = "list"]
    /\ UNCHANGED <<config, stores, pc, listing, cursor, last>>

WorkersNext ==
    \/ WorkerLists
    \/ WorkerChecks
    \/ WorkerProcesses
    \/ WorkerEndOfListing
    \/ WorkerSleeps

WorkersSpec == WorkersInit /\ [][WorkersNext]_vars

(***************************************************************************)
(* The GeoIP harness: enrich_ip applied to an address, with the database    *)
(* reader loaded or not, reader.city doing one of the things it can do.     *)
(***************************************************************************)
GeoAddresses ==
    {Ip(a, b) : a \in {8, 10, 11, 127, 172, 192}, b \in {0, 15, 16, 17, 31, 32, 168}}
    \cup {IpNonStr}

GeoInit ==
    /\ objects = {}
    /\ sigs = {}
    /\ public_keys = Registry
    /\ geoip_reader \in {"none", "loaded"}
    /\ cve_engine = <<>>
    /\ index = {}
    /\ indices = {}
    /\ archive = {}
    /\ clock = 0
    /\ pc = "list"
    /\ listing = <<>>
    /\ cursor = 1
    /\ last = Step("init", <<>>)
    /\ \E ip \in GeoAddresses :
          sc = ScState("geo_input",
                       Event(<<"a">>, "c1", ip, NoInt, FALSE, Absent, Absent, NoCert),
                       geoip_reader, <<>>, 0, NoEnrichment, "none", {}, 0, NoBreakdown)

\* geoip.enrich_ip(self.geoip_reader, event["target"]["ip"])
GeoLookup ==
    /\ sc.phase = "geo_input"
    /\ \E lookup \in Lookups :
          LET r == enrich_ip(geoip_reader, sc.ev.ip, lookup)
          IN  sc' = [sc EXCEPT !.phase = "geo_done",
                               !.lookup = lookup,
                               !.exc = r.exc,
                               !.enrichment.geoip =
                                   IF r.exc = "none" THEN Geo(r.val) ELSE NoGeo]
    /\ UNCHANGED <<config, stores, clock, pc, listing, cursor, last>>

GeoNext == GeoLookup

GeoSpec == GeoInit /\ [][GeoNext]_vars

(***************************************************************************)
(* The scanner (scanner/scanner.py).  A 32-bit unsigned value is kept as    *)
(* its two 16-bit words <<high, low>>; a dotted address is the tuple of its *)
(* four octets.                                                             *)
(***************************************************************************)
BannerLimit == 500
MaxTasks == 2
MaxDraws == 2

COMMON_PORTS ==
    <<21, 22, 23, 25, 80, 110, 143, 443, 445, 3306, 3389, 5432, 5900, 6379,
      8080, 8443, 27017, 9200, 9300>>

\* The ports of COMMON_PORTS that the task model probes: one whose service
\* greets unsolicited and one that is sent a request.
ProbedPorts == <<COMMON_PORTS[2], COMMON_PORTS[5]>>

U32(a, b, c, d) == <<a * 256 + b, c * 256 + d>>

\* ipaddress.ip_network("a.b.c.d/prefix")
ip_network(a, b, c, d, prefix) == [base |-> U32(a, b, c, d), prefix |-> prefix]

\* The ranges without loopback and link-local.
PRIVATE_RANGES_rfc1918 ==
    <<ip_network(10, 0, 0, 0, 8),
      ip_network(172, 16, 0, 0, 12),
      ip_network(192, 168, 0, 0, 16)>>

PRIVATE_RANGES ==
    <<ip_network(10, 0, 0, 0, 8),
      ip_network(172, 16, 0, 0, 12),
      ip_network(192, 168, 0, 0, 16),
      ip_network(127, 0, 0, 0, 8),
      ip_network(169, 254, 0, 0, 16)>>

\* socket.inet_ntoa(struct.pack('>I', n)): the octets, most significant first.
inet_ntoa(n) == <<n[1] \div 256, n[1] % 256, n[2] \div 256, n[2] % 256>>

\* ipaddress.ip_address(ip): the value of the dotted address.
ip_address(ip) == U32(ip[1], ip[2], ip[3], ip[4])

\* ip_obj in network: the leading prefix bits agree.
InNetwork(addr, network) ==
    IF network.prefix <= 16
    THEN addr[1] \div 2^(16 - network.prefix)
           = network.base[1] \div 2^(16 - network.prefix)
    ELSE /\ addr[1] = network.base[1]
         /\ addr[2] \div 2^(32 - network.prefix)
              = network.base[2] \div 2^(32 - network.prefix)

\* InternetScanner.is_private_ip; the ValueError branch needs an address that
\* does not parse, which inet_ntoa never produces.
is_private_ip(ip) ==
    \E i \in DOMAIN PRIVATE_RANGES : InNetwork(ip_address(ip), PRIVATE_RANGES[i])

\* random.randint(1, 0xffffffff): the values the model draws, the first and the
\* last address of every range and their neighbours among them.
SampleDraws ==
    {U32(0, 0, 0, 1), U32(8, 8, 8, 8), U32(255, 255, 255, 255),
     U32(9, 255, 255, 255), U32(10, 0, 0, 0), U32(10, 255, 255, 255), U32(11, 0, 0, 0),
     U32(126, 255, 255, 255), U32(127, 0, 0, 0), U32(127, 0, 0, 1),
     U32(127, 255, 255, 255), U32(128, 0, 0, 0),
     U32(169, 253, 255, 255), U32(169, 254, 0, 0), U32(169, 254, 255, 255),
     U32(169, 255, 0, 0),
     U32(172, 15, 255, 255), U32(172, 16, 0, 0), U32(172, 31, 255, 255),
     U32(172, 32, 0, 0),
     U32(192, 167, 255, 255), U32(192, 168, 0, 0), U32(192, 168, 255, 255),
     U32(192, 169, 0, 0)}

\* The ingester is not part of the scanner process.
NoIngester ==
    /\ objects = {}
    /\ sigs = {}
    /\ public_keys = {}
    /\ geoip_reader = "none"
    /\ cve_engine = <<>>
    /\ index = {}
    /\ indices = {}
    /\ archive = {}
    /\ clock = 0
    /\ pc = "list"
    /\ listing = <<>>
    /\ cursor = 1
    /\ last = Step("init", <<>>)

Generator(phase, discarded, ip) ==
    [phase |-> phase, discarded |-> discarded, ip |-> ip]

GenInit ==
    /\ NoIngester
    /\ sc = Generator("generating", <<>>, <<>>)

\* One turn of the loop of InternetScanner.generate_random_ip: a candidate is
\* drawn and either returned or dropped for the next turn.
generate_random_ip ==
    /\ sc.phase = "generating"
    /\ Len(sc.discarded) < MaxDraws
    /\ \E n \in SampleDraws :
          LET ip == inet_ntoa(n)
          IN  IF ~is_private_ip(ip)
              THEN sc' = Generator("returned", sc.discarded, ip)
              ELSE sc' = Generator("generating", Append(sc.discarded, ip), <<>>)
    /\ UNCHANGED <<config, stores, clock, pc, listing, cursor, last>>

GenNext == generate_random_ip

GenSpec == GenInit /\ [][GenNext]_vars

(***************************************************************************)
(* One port of one address: scan_port and grab_banner.  The network's part  *)
(* is the outcome of connect_ex, of send and of recv.                       *)
(***************************************************************************)
OSErrorFamily ==
    {"OSError", "socket.error", "socket.timeout", "BlockingIOError",
     "ConnectionResetError", "BrokenPipeError"}

\* isinstance(exc, cls); socket.error is OSError and the others derive from it.
IsSubclass(exc, cls) ==
    \/ exc = cls
    \/ cls \in {"OSError", "socket.error"} /\ exc \in OSErrorFamily

\* except (clause...): does the clause catch exc?
Caught(exc, clause) == \E cls \in clause : IsSubclass(exc, cls)

\* What scan_port returns: its dict, or None.
Observation(ip, port, banner) ==
    [state |-> "open", ip |-> ip, port |-> port, banner |-> banner]
NoObservation == [state |-> "closed", ip |-> <<>>, port |-> 0, banner |-> Absent]

\* bytes.decode('utf-8', errors='ignore'): undecodable bytes are dropped.
decode(bytes) == SelectSeq(bytes, LAMBDA c : c # "\\xff")

\* str.strip()
strip(s) ==
    LET keep == {i \in DOMAIN s : s[i] # " "}
    IN  IF keep = {} THEN <<>>
        ELSE SubSeq(s, CHOOSE i \in keep : \A j \in keep : i <= j,
                       CHOOSE i \in keep : \A j \in keep : i >= j)

\* s[:500]
Truncate(s) == SubSeq(s, 1, Min(Len(s), BannerLimit))

\* The ports grab_banner sends a request to.
ActiveProbe(port) == port = 80 \/ port = 8080

\* grab_banner without its try.
grab_banner_unguarded(port, send, recv) ==
    IF ActiveProbe(port) /\ send.exc # "none" THEN Raise(send.exc)
    ELSE IF recv.exc # "none" THEN Raise(recv.exc)
    ELSE IF recv.val # <<>> THEN Ok(Str(Truncate(strip(decode(recv.val)))))
    ELSE Ok(Absent)

\* InternetScanner.grab_banner
grab_banner(port, send, recv) ==
    LET clause == {"socket.timeout", "socket.error", "BlockingIOError", "OSError"}
    IN  IF ActiveProbe(port) /\ send.exc # "none"
        THEN IF Caught(send.exc, clause) THEN Ok(Absent) ELSE Raise(send.exc)
        ELSE IF recv.exc # "none"
        THEN IF Caught(recv.exc, clause) THEN Ok(Absent) ELSE Raise(recv.exc)
        ELSE IF recv.val # <<>> THEN Ok(Str(Truncate(strip(decode(recv.val)))))
        ELSE Ok(Absent)

\* InternetScanner.scan_port
scan_port(ip, port, connect, send, recv) ==
    LET clause == {"socket.timeout", "socket.error", "OSError"}
        banner == grab_banner(port, send, recv)
    IN  IF connect.exc # "none"
        THEN IF Caught(connect.exc, clause) THEN Ok(NoObservation)
             ELSE Raise(connect.exc)
        ELSE IF connect.val = 0
        THEN IF banner.exc # "none"
             THEN IF Caught(banner.exc, clause) THEN Ok(NoObservation)
                  ELSE Raise(banner.exc)
             ELSE Ok(Observation(ip, port, banner.val))
        ELSE Ok(NoObservation)

\* connect_ex: 0, ECONNREFUSED, the timeout's EAGAIN, or an OSError raised.
ConnectOutcomes == {Ok(0), Ok(111), Ok(11), Raise("OSError")}
SendOutcomes == {Ok(0), Raise("BrokenPipeError")}
RecvOutcomes ==
    {Ok(<<"S", "S", "H", " ">>), Ok(<<" ">>), Ok(<<"\\xff", "o", "k">>), Ok(<<>>),
     Raise("BlockingIOError"), Raise("socket.timeout"), Raise("ConnectionResetError")}

Target == inet_ntoa(U32(8, 8, 8, 8))

Probe(phase, port, connect, send, recv, result) ==
    [phase |-> phase, port |-> port, connect |-> connect, send |-> send,
     recv |-> recv, result |-> result]

PortInit ==
    /\ NoIngester
    /\ \E i \in DOMAIN COMMON_PORTS, connect \in ConnectOutcomes,
          send \in SendOutcomes, recv \in RecvOutcomes :
          sc = Probe("port_input", COMMON_PORTS[i], connect, send, recv,
                     Ok(NoObservation))

\* await self.scan_port(ip, port)
ScanPort ==
    /\ sc.phase = "port_input"
    /\ sc' = [sc EXCEPT !.phase = "port_done",
                        !.result = scan_port(Target, sc.port, sc.connect, sc.send,
                                             sc.recv)]
    /\ UNCHANGED <<config, stores, clock, pc, listing, cursor, last>>

PortNext == ScanPort

PortSpec == PortInit /\ [][PortNext]_vars

(***************************************************************************)
(* The run loop and the scan_ip tasks it creates.  A task is suspended in   *)
(* asyncio.gather while its scan_port children run, and in save_event once  *)
(* for every open port.  The stats counters and the timestamps are left     *)
(* out: nothing in the scanner reads them back.                             *)
(***************************************************************************)
\* A child of the gather: not started, suspended in grab_banner, or finished
\* with its result; `connect` tells how its connect_ex ended.
Slot(st, connect, res) == [st |-> st, connect |-> connect, res |-> res]
Pending == Slot("pending", "none", Ok(NoObservation))

Task(stage, ip, results, next) ==
    [stage |-> stage, ip |-> ip, results |-> results, next |-> next]
NoTask == Task("none", <<>>, <<>>, 0)

TaskIds == 1..MaxTasks

\* `connecting` is <<task, port index>> while the thread of the event loop is
\* inside the connect_ex of that child, and <<>> otherwise.
Scanner(run, tasks) ==
    [phase |-> "scanner", run |-> run, tasks |-> tasks, connecting |-> <<>>]

\* The values random.randint gives in the task model.
ScanDraws == {U32(8, 8, 8, 8), U32(10, 0, 0, 0)}

\* What recv gives in the task model: a greeting, nothing, or a timeout.
TaskRecvOutcomes == {Ok(<<"S", "S", "H", " ">>), Ok(<<>>), Raise("socket.timeout")}

\* POST to the sink: accepted, refused, or no answer within the request timeout.
SaveOutcomes == {"saved", "refused", "timeout"}

InFlight == Cardinality({t \in TaskIds : sc.tasks[t] # NoTask})

\* gather returns as soon as one child has finished.
GatherDone_first(results) == \E i \in DOMAIN results : results[i].st = "done"

\* asyncio.gather(*tasks, return_exceptions=True) returns when every child has
\* finished.
GatherDone(results) == \A i \in DOMAIN results : results[i].st = "done"

\* if result and isinstance(result, dict)
IsDict(slot) ==
    /\ slot.st = "done"
    /\ slot.res.exc = "none"
    /\ slot.res.val.state = "open"

\* The next result at or after `from` that the loop of scan_ip saves; 0: none.
NextSaved(results, from) ==
    LET found == {i \in DOMAIN results : i >= from /\ IsDict(results[i])}
    IN  IF found = {} THEN 0 ELSE CHOOSE i \in found : \A j \in found : i <= j

\* scan_ip goes on to the result at `next`, or returns.
Advance(task, next) ==
    IF next = 0 THEN NoTask ELSE [task EXCEPT !.stage = "results", !.next = next]

ScanInit ==
    /\ NoIngester
    /\ sc = Scanner("dispatch", [t \in TaskIds |-> NoTask])

\* run: ip = generate_random_ip(); asyncio.create_task(self.scan_ip(ip)), and
\* scan_ip up to its gather.  The model stops dispatching at MaxTasks.
Dispatch ==
    /\ sc.connecting = <<>>
    /\ sc.run = "dispatch"
    /\ InFlight < MaxTasks
    /\ \E n \in ScanDraws :
          LET ip == inet_ntoa(n)
              t == CHOOSE i \in TaskIds :
                       /\ sc.tasks[i] = NoTask
                       /\ \A j \in TaskIds : sc.tasks[j] = NoTask => i <= j
          IN  /\ ~is_private_ip(ip)
              /\ sc' = [sc EXCEPT !.run = "sleep",
                                  !.tasks[t] = Task("gather", ip,
                                                    [i \in DOMAIN ProbedPorts |-> Pending],
                                                    0)]
    /\ UNCHANGED <<config, stores, clock, pc, listing, cursor, last>>

\* run: await asyncio.sleep(delay) returns.
Wake ==
    /\ sc.connecting = <<>>
    /\ sc.run = "sleep"
    /\ sc' = [sc EXCEPT !.run = "dispatch"]
    /\ UNCHANGED <<config, stores, clock, pc, listing, cursor, last>>

\* scan_port up to its connect_ex: the socket is created with a timeout and
\* connect_ex is called on it.  It is a call of the blocking socket API, not an
\* await: the thread stays in it until the connection attempt has ended.
ScanPortStart ==
    /\ sc.connecting = <<>>
    /\ \E t \in TaskIds, i \in DOMAIN ProbedPorts :
          /\ sc.tasks[t].stage = "gather"
          /\ sc.tasks[t].results[i] = Pending
          /\ sc' = [sc EXCEPT !.connecting = <<t, i>>]
    /\ UNCHANGED <<config, stores, clock, pc, listing, cursor, last>>

\* connect_ex returns; scan_port goes on to the sleep of grab_banner, or to its
\* return.
ScanPortConnect ==
    /\ \E t \in TaskIds, i \in DOMAIN ProbedPorts :
          /\ sc.connecting = <<t, i>>
          /\ sc.tasks[t].stage = "gather"
          /\ sc.tasks[t].results[i] = Pending
          /\ \E connect \in ConnectOutcomes, send \in SendOutcomes :
                LET port == ProbedPorts[i]
                    waits == /\ connect = Ok(0)
                             /\ ~(ActiveProbe(port) /\ send.exc # "none")
                    res == scan_port(sc.tasks[t].ip, port, connect, send, Ok(<<>>))
                    how == IF connect = Ok(0) THEN "connected" ELSE "failed"
                IN  sc' = [sc EXCEPT !.connecting = <<>>,
                                     !.tasks[t].results[i] =
                              IF waits THEN Slot("banner", how, Ok(NoObservation))
                              ELSE Slot("done", how, res)]
    /\ UNCHANGED <<config, stores, clock, pc, listing, cursor, last>>

\* scan_port from the recv of grab_banner to its return.
ScanPortBanner ==
    /\ sc.connecting = <<>>
    /\ \E t \in TaskIds, i \in DOMAIN ProbedPorts :
          /\ sc.tasks[t].stage = "gather"
          /\ sc.tasks[t].results[i].st = "banner"
          /\ \E recv \in TaskRecvOutcomes :
                sc' = [sc EXCEPT !.tasks[t].results[i] =
                          Slot("done", "connected",
                               scan_port(sc.tasks[t].ip, ProbedPorts[i],
                                         Ok(0), Ok(0), recv))]
    /\ UNCHANGED <<config, stores, clock, pc, listing, cursor, last>>

\* scan_ip after its gather: the first open port's event is built and handed to
\* save_event, or there is none and scan_ip returns.
GatherReturns ==
    /\ sc.connecting = <<>>
    /\ \E t \in TaskIds :
          /\ sc.tasks[t].stage = "gather"
          /\ GatherDone(sc.tasks[t].results)
          /\ sc' = [sc EXCEPT !.tasks[t] =
                       Advance(sc.tasks[t], NextSaved(sc.tasks[t].results, 1))]
    /\ UNCHANGED <<config, stores, clock, pc, listing, cursor, last>>

\* save_event returns, whatever the sink answered; scan_ip goes on to the next
\* open port or returns.
SaveEventReturns ==
    /\ sc.connecting = <<>>
    /\ \E t \in TaskIds, outcome \in SaveOutcomes :
          /\ sc.tasks[t].stage = "results"
          /\ sc' = [sc EXCEPT !.tasks[t] =
                       Advance(sc.tasks[t],
                               NextSaved(sc.tasks[t].results, sc.tasks[t].next + 1))]
    /\ UNCHANGED <<config, stores, clock, pc, listing, cursor, last>>

ScanNext ==
    \/ Dispatch
    \/ Wake
    \/ ScanPortStart
    \/ ScanPortConnect
    \/ ScanPortBanner
    \/ GatherReturns
    \/ SaveEventReturns

ScanSpec == ScanInit /\ [][ScanNext]_vars

(***************************************************************************)
(* InternetScanner.detect_service.  A label is a name of the port table or  *)
(* of a signature, or 'unknown-<port>'.                                     *)
(***************************************************************************)
Known(name) == [name |-> name, port |-> 0]
UnknownPort(port) == [name |-> "unknown-", port |-> port]

MYSQL == <<"m", "y", "s", "q", "l">>
POSTGRESQL == <<"p", "o", "s", "t", "g", "r", "e", "s", "q", "l">>
REDIS == <<"r", "e", "d", "i", "s">>
MONGODB == <<"m", "o", "n", "g", "o", "d", "b">>
ELASTICSEARCH == <<"e", "l", "a", "s", "t", "i", "c", "s", "e", "a", "r", "c", "h">>

\* port_services.get(port, f'unknown-{port}')
port_services(port) ==
    CASE port = 21 -> Known("ftp")
      [] port = 22 -> Known("ssh")
      [] port = 23 -> Known("telnet")
      [] port = 25 -> Known("smtp")
      [] port = 80 -> Known("http")
      [] port = 110 -> Known("pop3")
      [] port = 143 -> Known("imap")
      [] port = 443 -> Known("https")
      [] port = 445 -> Known("smb")
      [] port = 3306 -> Known("mysql")
      [] port = 3389 -> Known("rdp")
      [] port = 5432 -> Known("postgresql")
      [] port = 5900 -> Known("vnc")
      [] port = 6379 -> Known("redis")
      [] port = 8080 -> Known("http-proxy")
      [] port = 8443 -> Known("https-alt")
      [] port = 27017 -> Known("mongodb")
      [] port = 9200 -> Known("elasticsearch")
      [] port = 9300 -> Known("elasticsearch")
      [] OTHER -> UnknownPort(port)

\* The refinement by the banner as it is: the banner is not lowered.
detect_service_case_sensitive(port, banner) ==
    IF banner.t = "str" /\ banner.s # <<>>
    THEN IF Contains(APACHE, banner.s) THEN Known("apache-httpd")
         ELSE IF Contains(NGINX, banner.s) THEN Known("nginx")
         ELSE IF Contains(OPENSSH, banner.s) THEN Known("openssh")
         ELSE IF Contains(MYSQL, banner.s) THEN Known("mysql")
         ELSE IF Contains(POSTGRESQL, banner.s) THEN Known("postgresql")
         ELSE IF Contains(REDIS, banner.s) THEN Known("redis")
         ELSE IF Contains(MONGODB, banner.s) THEN Known("mongodb")
         ELSE IF Contains(ELASTICSEARCH, banner.s) THEN Known("elasticsearch")
         ELSE port_services(port)
    ELSE port_services(port)

\* InternetScanner.detect_service: `if banner:` and the chain of elif.
detect_service(port, banner) ==
    LET service == port_services(port)
        banner_lower == lower(banner.s)
    IN  IF banner.t = "str" /\ banner.s # <<>>
        THEN IF Contains(APACHE, banner_lower) THEN Known("apache-httpd")
             ELSE IF Contains(NGINX, banner_lower) THEN Known("nginx")
             ELSE IF Contains(OPENSSH, banner_lower) THEN Known("openssh")
             ELSE IF Contains(MYSQL, banner_lower) THEN Known("mysql")
             ELSE IF Contains(POSTGRESQL, banner_lower) THEN Known("postgresql")
             ELSE IF Contains(REDIS, banner_lower) THEN Known("redis")
             ELSE IF Contains(MONGODB, banner_lower) THEN Known("mongodb")
             ELSE IF Contains(ELASTICSEARCH, banner_lower) THEN Known("elasticsearch")
             ELSE service
        ELSE service

\* The ports the classifier is given: those of COMMON_PORTS and two others.
ServicePorts == {COMMON_PORTS[i] : i \in DOMAIN COMMON_PORTS} \cup {7, 8081}

\* The banners the classifier is given: none, the empty one, one for every
\* signature in some spelling, one without a signature, one with two.
ServiceBanners ==
    {Absent, Str(<<>>),
     Str(<<"A", "p", "a", "c", "h", "e", "/", "2">>),
     Str(<<"N", "g", "i", "n", "x">>),
     Str(<<"S", "S", "H", "-", "2", "-", "O", "p", "e", "n", "S", "S", "H">>),
     Str(<<"m", "y", "S", "q", "l">>),
     Str(POSTGRESQL), Str(REDIS), Str(MONGODB), Str(ELASTICSEARCH),
     Str(<<"h", "e", "l", "l", "o">>),
     Str(<<"n", "g", "i", "n", "x", " ", "a", "p", "a", "c", "h", "e">>)}

Classified(phase, port, banner, service) ==
    [phase |-> phase, port |-> port, banner |-> banner, service |-> service]

ServiceInit ==
    /\ NoIngester
    /\ \E port \in ServicePorts, banner \in ServiceBanners :
          sc = Classified("service_input", port, banner, Known(""))

\* self.detect_service(scan_result['port'], scan_result.get('banner'))
DetectService ==
    /\ sc.phase = "service_input"
    /\ sc' = [sc EXCEPT !.phase = "service_done",
                        !.service = detect_service(sc.port, sc.banner)]
    /\ UNCHANGED <<config, stores, clock, pc, listing, cursor, last>>

ServiceNext == DetectService

ServiceSpec == ServiceInit /\ [][ServiceNext]_vars

(***************************************************************************)
(* C1: for every event, the score calculate_risk returns lies in 0..100,    *)
(* however large the sum of the components of the breakdown is.             *)
(***************************************************************************)
C1_ScoreInRange ==
    sc.phase = "scored" => (0 <= sc.score /\ sc.score <= 100)

C1_Witness ==
    /\ sc.phase = "scored"
    /\ BreakdownSum(sc.breakdown) > 100
    /\ sc.score = 100

(***************************************************************************)
(* What the claims about the pipeline speak of: the object the last step    *)
(* processed, and whether its signature is genuine.                         *)
(***************************************************************************)
Processed == last.step = "process"

LastPayload == ObjectBytes(objects, last.object)
LastHasSig == HasObject(sigs, SigName(last.object))
LastSig == ObjectBytes(sigs, SigName(last.object))

\* sig is the signature, made with the key registered for the source of the event
\* that payload encodes, over the bytes payload.
GenuinePair(payload, sig) ==
    /\ payload.json
    /\ sig.wellformed
    /\ sig.over = payload
    /\ \E e \in public_keys : e.cid = payload.ev.collector_id /\ e.key = sig.key

UnknownSource(payload) ==
    payload.json /\ payload.ev.collector_id \notin {e.cid : e \in public_keys}

\* The object of this name is one the Trust Gateway must not let through.
Untrusted(name) ==
    \/ ~HasObject(sigs, SigName(name))
    \/ UnknownSource(ObjectBytes(objects, name))
    \/ ~GenuinePair(ObjectBytes(objects, name), ObjectBytes(sigs, SigName(name)))

NothingDone ==
    /\ last.ran = {}
    /\ ~last.scored
    /\ ~last.index_tried
    /\ ~last.archive_tried
    /\ last.doc = <<>>

\* The event of doc was stored in the bucket with a genuine signature.
FromTrustedObject(doc) ==
    \E o \in objects :
        /\ o.bytes.json
        /\ o.bytes.ev = doc.ev
        /\ ~Untrusted(o.name)

(***************************************************************************)
(* C2: the Trust Gateway fails closed.  An event whose collector_id has no  *)
(* entry in the key registry, whose signature object is missing or whose    *)
(* signature does not verify is rejected without an exception leaving       *)
(* process_event_file, and it reaches neither enrichment, scoring, the      *)
(* index nor the archive: every stored document comes from an object with a *)
(* genuine signature.                                                       *)
(***************************************************************************)
C2_FailsClosed ==
    /\ (Processed /\ Untrusted(last.object)) =>
          (last.escaped = "none" /\ last.verdict # "accepted" /\ NothingDone)
    /\ \A d \in index : FromTrustedObject(d.doc)
    /\ \A a \in archive : a.content # <<>> => FromTrustedObject(a.content[1])

C2_Witness ==
    /\ Processed
    /\ last.outcome = "rejected"
    /\ UnknownSource(LastPayload)
    /\ LastSig.wellformed /\ LastSig.over = LastPayload

(***************************************************************************)
(* C3: an event is accepted by the Trust Gateway if and only if the         *)
(* signature is genuine, under the key registered for the event's source,   *)
(* over the exact bytes of the payload object; bytes that encode the same   *)
(* event but differ from the signed bytes are rejected.                     *)
(***************************************************************************)
C3_AcceptedIffGenuine ==
    (Processed /\ last.verdict # "not_reached") =>
        (last.verdict = "accepted" <=> GenuinePair(LastPayload, LastSig))

\* A payload that is not what json.dumps would write is accepted with the signature
\* over its own bytes.
C3_Witness ==
    /\ Processed
    /\ last.verdict = "accepted"
    /\ LastPayload.fmt = 1
    /\ LastPayload # json_dumps(LastPayload.ev)

(***************************************************************************)
(* C4: an event dropped for a verification or parsing failure (missing      *)
(* signature object, invalid JSON, unknown source, bad signature) leaves    *)
(* the index and the archive unchanged.                                     *)
(***************************************************************************)
DropCase(name) == ~ObjectBytes(objects, name).json \/ Untrusted(name)

C4_DropWritesNothing ==
    [][(last'.step = "process" /\ DropCase(last'.object)) =>
          (index' = index /\ indices' = indices /\ archive' = archive)]_vars

\* A bad signature is dropped while the stores hold another event.
C4_Witness ==
    /\ Processed
    /\ last.outcome = "rejected"
    /\ ~UnknownSource(LastPayload)
    /\ index # {}
    /\ archive # {}

(***************************************************************************)
(* C5: deduplication is by event id and precedes enrichment.  An event      *)
(* whose id already has an archived record is never enriched, scored,       *)
(* indexed or archived again.                                               *)
(***************************************************************************)
C5_NoReprocessing ==
    [][(/\ last'.step = "process"
        /\ ObjectBytes(objects, last'.object).json
        /\ ArchiveExists(archive, ObjectBytes(objects, last'.object).ev.id))
         => (/\ last'.ran = {}
             /\ ~last'.scored
             /\ ~last'.index_tried
             /\ ~last'.archive_tried)]_vars

(***************************************************************************)
(* C6: writing the same event id to the Sink twice leaves exactly one       *)
(* archived object for that id and exactly one index document for that id,  *)
(* the document of the latest write.                                        *)
(***************************************************************************)
SinkWritten == Processed /\ last.doc # <<>>
IndexWritten == SinkWritten /\ last.index_logged = "none"

OneArchivedObjectPerId == \A a1, a2 \in archive : a1.id = a2.id => a1 = a2

\* As claimed: one index document per id, whenever the writes happen.
C6_OneDocumentPerId ==
    /\ OneArchivedObjectPerId
    /\ \A d1, d2 \in index : d1.id = d2.id => d1 = d2
    /\ IndexWritten => \E d \in index : d.id = last.doc[1].ev.id /\ d.doc = last.doc[1]

\* As amended: one index document per id in the index of each month written to;
\* a write that succeeds puts its document in the index of the month of the write.
C6_OneDocumentPerIdAndMonth ==
    /\ OneArchivedObjectPerId
    /\ \A d1, d2 \in index : (d1.id = d2.id /\ d1.index = d2.index) => d1 = d2
    /\ IndexWritten =>
          [index |-> IndexName(clock), id |-> last.doc[1].ev.id, doc |-> last.doc[1]]
              \in index
    /\ (SinkWritten /\ last.outcome = "written") =>
          [id |-> last.doc[1].ev.id, content |-> last.doc] \in archive

\* The id written had a document in the index of this month and an archived file.
C6_Witness ==
    /\ IndexWritten
    /\ last.outcome = "written"
    /\ last.had_index
    /\ last.had_archive

(***************************************************************************)
(* C7: the archive is write-once per id.  Once an archived record exists    *)
(* for an id, no later step of the pipeline changes its content.            *)
(***************************************************************************)
C7_ArchiveWriteOnce ==
    [][\A a \in archive : a \in archive']_vars

(***************************************************************************)
(* C8: the two Sink writes are independent.  When the index write (or the   *)
(* creation of the index) fails, the archive write is still performed; when *)
(* the archive write fails, the index write has been performed and is not   *)
(* undone.                                                                  *)
(***************************************************************************)
C8_SinkWritesIndependent ==
    /\ SinkWritten => (last.index_tried /\ last.archive_tried)
    /\ (SinkWritten /\ last.index_logged # "none" /\ last.exc = "none") =>
          [id |-> last.doc[1].ev.id, content |-> last.doc] \in archive
    /\ (SinkWritten /\ last.index_logged = "none" /\ last.outcome = "archive_failed") =>
          [index |-> IndexName(clock), id |-> last.doc[1].ev.id, doc |-> last.doc[1]]
              \in index

\* The index write failed and the document is archived, not indexed.
C8_Witness ==
    /\ SinkWritten
    /\ last.index_logged # "none"
    /\ [id |-> last.doc[1].ev.id, content |-> last.doc] \in archive
    /\ ~\E d \in index : d.id = last.doc[1].ev.id

(***************************************************************************)
(* C9: no failure escapes one event's processing.  Whatever stage fails for *)
(* an event, no exception leaves process_event_file and the loop stands at  *)
(* the next object of the listing; after a failed listing the loop sleeps   *)
(* until the next poll cycle; the loop is always at one of its three        *)
(* positions, each of which has a next step: it never terminates.           *)
(***************************************************************************)
C9_FailuresContained ==
    /\ pc \in {"list", "iterate", "sleep"}
    /\ Processed =>
          /\ last.escaped = "none"
          /\ pc = "iterate"
          /\ cursor > 1
          /\ listing[cursor - 1] = last.object
    /\ last.step = "list_failed" => pc = "sleep"

\* An event's processing ended with an exception and the loop stands before the
\* remaining objects of the listing, an event object among them.
C9_Witness ==
    /\ Processed
    /\ last.exc # "none"
    /\ pc = "iterate"
    /\ \E i \in cursor..Len(listing) : EndsWith(listing[i], ".json")

(***************************************************************************)
(* C10: the enrichers are independently fault-tolerant.  Whichever enricher *)
(* fails on an accepted event, every enricher that applies to the event is  *)
(* run and the event reaches risk scoring.                                  *)
(***************************************************************************)
Applicable(ev) ==
    (IF ev.ip.t # "absent" THEN {"geoip"} ELSE {})
    \cup (IF ev.probes /\ ev.cert.t \in {"bad", "der"} THEN {"tls"} ELSE {})
    \cup (IF ev.probes THEN {"cve"} ELSE {})

C10_EnrichersIndependent ==
    (Processed /\ last.verdict = "accepted") =>
        (Applicable(LastPayload.ev) \subseteq last.ran /\ last.outcome # "enrich_failed")

(***************************************************************************)
(* C11: only a Trust Gateway rejection and a Deduplicator hit drop an       *)
(* event.  Every event whose signature verifies and whose id has no         *)
(* archived record is handed to the Sink: the index write and the archive   *)
(* write are both attempted, whatever enrichment and scoring do.            *)
(***************************************************************************)
C11_AcceptedIsWritten ==
    [][(/\ last'.step = "process"
        /\ last'.verdict = "accepted"
        /\ ~ArchiveExists(archive, ObjectBytes(objects, last'.object).ev.id))
         => (last'.index_tried /\ last'.archive_tried)]_vars

(***************************************************************************)
(* C12: in every document written to the Sink, risk_score is the sum of the *)
(* components of the risk_breakdown of the same document, clamped to        *)
(* 0..100, whenever the score and the breakdown were computed.              *)
(***************************************************************************)
ScoreMatchesBreakdown(doc) ==
    doc.risk_score = Min(100, Max(0, BreakdownSum(doc.risk_breakdown)))

C12_ScoreIsClampedSum ==
    /\ \A d \in index : ScoreMatchesBreakdown(d.doc)
    /\ \A a \in archive : a.content # <<>> => ScoreMatchesBreakdown(a.content[1])

(***************************************************************************)
(* C13: derived fields are never taken from upstream.  The document the     *)
(* pipeline produces for an event is the document it produces for the same  *)
(* event sent without risk_score, risk_breakdown and enrichment: the values *)
(* the sender put under these keys do not reach the document.               *)
(***************************************************************************)
C13_DerivedFieldsOverwritten ==
    sc.phase = "scored" =>
        LET clean == WithUpstream(sc.ev, NoUpstream)
        IN  \E lookup \in Lookups, dt \in 0..1 :
               LET e == _enrich_event(clean, sc.reader, sc.rules, lookup)
                   d == _compute_risk_score(EnrichedEvent(clean, e.val),
                                            sc.now - dt, sc.now)
               IN  /\ e.exc = "none"
                   /\ e.val = sc.enrichment
                   /\ d.exc = "none"
                   /\ sc.doc = <<d.val>>

\* An event sent with forged values under the three keys has been scored.
C13_Witness ==
    /\ sc.phase = "scored"
    /\ sc.ev.upstream = Upstream("forged", "forged", "forged")
    /\ sc.doc # <<>>

ExpiresBetween(tls_cert, t1, t2) ==
    /\ tls_cert.t = "cert"
    /\ ~(fromisoformat(tls_cert.valid_to) < t1)
    /\ fromisoformat(tls_cert.valid_to) < t2

PrivateOrLoopback(ip) ==
    /\ ip.t = "str"
    /\ \/ ip.o[1] = 127
       \/ ip.o[1] = 10
       \/ (ip.o[1] = 172 /\ 16 <= ip.o[2] /\ ip.o[2] <= 31)
       \/ (ip.o[1] = 192 /\ ip.o[2] = 168)

C15_PrivateShortCircuit ==
    (sc.phase = "geo_done" /\ PrivateOrLoopback(sc.ev.ip)) =>
        /\ sc.exc = "none"
        /\ sc.enrichment.geoip = Geo(GeoResult("PRIVATE", "PRIVATE", FALSE))

(***************************************************************************)
(* C16: GeoIP resolution never fails.  For every input address and every    *)
(* reader state enrich_ip returns a result with country, city and location, *)
(* and without a database, or when the lookup misses, an address that is    *)
(* not private gets the UNKNOWN marker.                                     *)
(***************************************************************************)
C16_GeoNeverFails ==
    sc.phase = "geo_done" =>
        /\ sc.exc = "none"
        /\ sc.enrichment.geoip.present
        /\ (/\ ~PrivateOrLoopback(sc.ev.ip)
            /\ (geoip_reader = "none" \/ sc.lookup = "miss"))
              => sc.enrichment.geoip = Geo(GeoResult("UNKNOWN", "UNKNOWN", FALSE))

(***************************************************************************)
(* C17: exposure_score is 5 exactly when the GeoIP enrichment of the event  *)
(* is a real public-location result, and 0 for the PRIVATE, UNKNOWN and     *)
(* error markers, for a result without a country and for an event without   *)
(* GeoIP enrichment.                                                        *)
(***************************************************************************)
PublicLocation(geoip) ==
    /\ geoip.present
    /\ geoip.r.country_name \notin {"PRIVATE", "UNKNOWN", "ERROR", NONE}

C17_ExposureOnlyForPublic ==
    sc.phase = "scored" =>
        sc.breakdown.exposure_score = (IF PublicLocation(sc.enrichment.geoip) THEN 5 ELSE 0)

(***************************************************************************)
(* C18: a rule whose regex is malformed or fails on evaluation is the only  *)
(* rule disabled.  For an event whose probe fields are strings, match_cves  *)
(* does not raise, and every rule whose regex matches the Server header is  *)
(* recorded in cve_matches, wherever the failing rule stands in the rule    *)
(* set.                                                                     *)
(***************************************************************************)
FieldsAreStrings(ev) == ev.server.t # "nonstr" /\ ev.banner.t # "nonstr"

\* The rule's regex for the field named key is a pattern that matches text.
RuleMatches(rule, key, text) ==
    /\ rule[key].t = "pattern"
    /\ text.t = "str"
    /\ text.s # <<>>
    /\ Contains(lower(rule[key].p), lower(text.s))

Recorded(cve_matches, rule, on) ==
    \E i \in 1..Len(cve_matches.list) :
        /\ cve_matches.list[i].cve_id = rule.cve_id
        /\ cve_matches.list[i].matched_on = on

CveRan == sc.phase \in {"enriched", "failed", "scored", "rescored"} /\ "cve" \in sc.ran

C18_FailingRuleAlone ==
    (CveRan /\ FieldsAreStrings(sc.ev)) =>
        /\ sc.exc \notin {"TypeError", "re.error"}
        /\ \A i \in 1..Len(sc.rules) :
              RuleMatches(sc.rules[i], "server_regex", sc.ev.server)
                  => Recorded(sc.enrichment.cve_matches, sc.rules[i], "http_server_header")

(***************************************************************************)
(* C19: CVE matching is additive and complete.  For an event whose probe    *)
(* fields are strings, cve_matches holds one entry for each pair of a rule  *)
(* and a probe field (Server header, SSH banner) such that the field is     *)
(* present and the rule's regex for it matches it case-insensitively, and   *)
(* no other entry.                                                          *)
(***************************************************************************)
PairMatches(rule, key, text) ==
    /\ rule[key].t = "pattern"
    /\ text.t = "str"
    /\ Contains(lower(rule[key].p), lower(text.s))

EntriesFor(cve_matches, cve_id, on) ==
    Cardinality({k \in 1..Len(cve_matches.list) :
                    /\ cve_matches.list[k].cve_id = cve_id
                    /\ cve_matches.list[k].matched_on = on})

PairsFor(rules, cve_id, key, text) ==
    Cardinality({i \in 1..Len(rules) :
                    rules[i].cve_id = cve_id /\ PairMatches(rules[i], key, text)})

C19_MatchesAreExactlyThePairs ==
    (CveRan /\ FieldsAreStrings(sc.ev)) =>
        \A i \in 1..Len(sc.rules) :
            /\ EntriesFor(sc.enrichment.cve_matches, sc.rules[i].cve_id,
                          "http_server_header")
                 = PairsFor(sc.rules, sc.rules[i].cve_id, "server_regex", sc.ev.server)
            /\ EntriesFor(sc.enrichment.cve_matches, sc.rules[i].cve_id, "ssh_banner")
                 = PairsFor(sc.rules, sc.rules[i].cve_id, "ssh_banner_regex",
                            sc.ev.banner)

(***************************************************************************)
(* C20: cert_score is 10 if the TLS certificate is self-signed, plus 15 if  *)
(* its valid_to is earlier than the evaluation time; a self-signed          *)
(* certificate that has expired gives 25; an event without TLS certificate  *)
(* enrichment, or with the parse-error marker, gives 0.                     *)
(***************************************************************************)
ExpectedCertScore(ev, now) ==
    IF ev.probes /\ ev.cert.t = "der"
    THEN (IF ev.cert.self_signed THEN 10 ELSE 0) + (IF ev.cert.valid_to < now THEN 15 ELSE 0)
    ELSE 0

C20_CertScoreAdditive ==
    /\ sc.phase \in {"scored", "rescored"} =>
          sc.breakdown.cert_score = ExpectedCertScore(sc.ev, sc.now)
    /\ sc.phase = "rescored" =>
          sc.again.breakdown.cert_score = ExpectedCertScore(sc.ev, sc.again.now)

\* A self-signed certificate that has expired scores 25.
C20_Witness ==
    /\ sc.phase = "scored"
    /\ sc.enrichment.tls_cert.t = "cert"
    /\ sc.enrichment.tls_cert.self_signed
    /\ fromisoformat(sc.enrichment.tls_cert.valid_to) < sc.now
    /\ sc.breakdown.cert_score = 25

(***************************************************************************)
(* C21: port_score is 5 when the target port is one of 21, 22, 23, 80, 443, *)
(* 3389, plus 10 when it is 23, and 0 otherwise.  An event with port 23, no *)
(* ssh_banner probe, no Server header, no TLS and a public GeoIP result     *)
(* gets the breakdown {15, 0, 0, 0, 5, 0} and the score 20.                 *)
(***************************************************************************)
TelnetExample ==
    /\ sc.ev.port = IntV(23)
    /\ sc.ev.banner.t = "absent"
    /\ sc.ev.server.t = "absent"
    /\ sc.ev.cert.t = "absent"
    /\ PublicLocation(sc.enrichment.geoip)

C21_PortScore ==
    sc.phase = "scored" =>
        /\ sc.breakdown.port_score =
              (IF sc.ev.port.t = "int" /\ sc.ev.port.v \in {21, 22, 23, 80, 443, 3389}
               THEN 5 ELSE 0)
              + (IF sc.ev.port.t = "int" /\ sc.ev.port.v = 23 THEN 10 ELSE 0)
        /\ TelnetExample =>
              (sc.breakdown = Breakdown(15, 0, 0, 0, 5, 0) /\ sc.score = 20)

C21_Witness ==
    /\ sc.phase = "scored"
    /\ TelnetExample
    /\ sc.score = 20

(***************************************************************************)
(* C22: service_score gets 5 exactly when the event has SSH banner text     *)
(* that does not name OpenSSH, and 2 exactly when it has a Server header    *)
(* that names nginx or apache; an event without SSH banner text gets no SSH *)
(* contribution.                                                            *)
(***************************************************************************)
HasText(field) == field.t = "str" /\ field.s # <<>>

ExpectedServiceScore(ev) ==
    (IF ev.probes /\ HasText(ev.banner) /\ ~Contains(OPENSSH, lower(ev.banner.s))
     THEN 5 ELSE 0)
    + (IF /\ ev.probes
          /\ HasText(ev.server)
          /\ (Contains(NGINX, lower(ev.server.s)) \/ Contains(APACHE, lower(ev.server.s)))
       THEN 2 ELSE 0)

C22_ServiceScore ==
    sc.phase = "scored" => sc.breakdown.service_score = ExpectedServiceScore(sc.ev)

(***************************************************************************)
(* C23: vuln_score is the sum, over the entries of enrichment.cve_matches,  *)
(* of the weight of the entry's severity (CRITICAL 30, HIGH 20, MEDIUM 10,  *)
(* LOW 5, anything else or no severity 0), and it is computed for every     *)
(* list of matches: scoring does not fail on a list of matches.             *)
(***************************************************************************)
ClaimedWeight(severity) ==
    IF severity.t # "str" THEN 0
    ELSE CASE upper(severity.s) = "CRITICAL" -> 30
           [] upper(severity.s) = "HIGH" -> 20
           [] upper(severity.s) = "MEDIUM" -> 10
           [] upper(severity.s) = "LOW" -> 5
           [] OTHER -> 0

RECURSIVE ClaimedVulnScore(_)
ClaimedVulnScore(list) ==
    IF list = <<>> THEN 0
    ELSE ClaimedWeight(Head(list).severity) + ClaimedVulnScore(Tail(list))

\* Enrichment completed and scoring raised.
ScoringFailed == sc.phase = "failed" /\ sc.enrichment.cve_matches.present

C23_VulnScore ==
    /\ sc.phase = "scored" =>
          sc.breakdown.vuln_score = ClaimedVulnScore(sc.enrichment.cve_matches.list)
    /\ ~(ScoringFailed /\ FieldsAreStrings(sc.ev))

(***************************************************************************)
(* C24: lazy index creation precedes the first write.  A write targets the  *)
(* index named for the month of the write time; every document of the       *)
(* index store is in an index that exists and was created with the fixed    *)
(* mapping; an index that a write finds missing is created by that write.   *)
(***************************************************************************)
C24_IndexCreatedBeforeWrite ==
    /\ \A d \in index :
          [name |-> d.index, mapping |-> _get_index_mapping] \in indices
    /\ \A i1, i2 \in indices : i1.name = i2.name => i1 = i2
    /\ IndexWritten =>
          /\ [index |-> IndexName(clock), id |-> last.doc[1].ev.id, doc |-> last.doc[1]]
                \in index
          /\ IndicesExists(indices, IndexName(clock))

\* A write in a second month found its index missing and created it.
C24_Witness ==
    /\ IndexWritten
    /\ Cardinality(indices) = 2
    /\ \E d1, d2 \in index : d1.index # d2.index

(***************************************************************************)
(* C25: under normal operation every event object of the bucket is          *)
(* eventually indexed and archived, and thereafter skipped on every later   *)
(* poll cycle: the loop never again processes, indexes and archives an      *)
(* object whose event is in the index and in the archive.                   *)
(***************************************************************************)
IndexedAndArchived(o) ==
    /\ o.bytes.json
    /\ \E d \in index : d.doc.ev = o.bytes.ev
    /\ \E a \in archive : a.content # <<>> /\ a.content[1].ev = o.bytes.ev

C25_WrittenThenSkipped ==
    [][\A o \in objects :
          (IndexedAndArchived(o) /\ last'.object = o.name)
              => ~(/\ last'.step = "process"
                   /\ last'.outcome = "written"
                   /\ last'.index_logged = "none")]_vars

(***************************************************************************)
(* C26: a missing or unreadable key registry, GeoIP database or CVE rule    *)
(* file is never fatal at startup.  Construction completes and the loop     *)
(* runs, with an empty key registry (every event is then rejected), no      *)
(* GeoIP reader (addresses that are not private resolve to UNKNOWN) and an  *)
(* empty rule set (no CVE match).                                           *)
(***************************************************************************)
C26_StartupNeverFatal ==
    /\ pc # "crashed"
    /\ pc # "start" =>
          /\ sc.keys # "ok" => public_keys = {}
          /\ sc.geoipdb # "ok" => geoip_reader = "none"
          /\ sc.rules # "ok" => cve_engine = <<>>
    /\ (Processed /\ sc.keys # "ok") => (last.verdict # "accepted" /\ NothingDone)
    /\ (SinkWritten /\ sc.geoipdb # "ok" /\ ~PrivateOrLoopback(last.doc[1].ev.ip)) =>
          last.doc[1].enrichment.geoip = Geo(GeoResult("UNKNOWN", "UNKNOWN", FALSE))
    /\ (SinkWritten /\ sc.rules # "ok") =>
          last.doc[1].enrichment.cve_matches.list = <<>>

\* Without any of the three files the loop runs and rejects an event.
C26_Witness ==
    /\ sc.keys # "ok" /\ sc.geoipdb # "ok" /\ sc.rules # "ok"
    /\ Processed
    /\ last.outcome = "rejected"
    /\ pc = "iterate"

(***************************************************************************)
(* C30: every address returned by generate_random_ip lies outside           *)
(* 127.0.0.0/8, 169.254.0.0/16, 10.0.0.0/8, 172.16.0.0/12 and               *)
(* 192.168.0.0/16; a candidate inside one of them is dropped and another    *)
(* one is drawn.  The ranges are stated here by the octets of the address.  *)
(***************************************************************************)
InExcludedRange(ip) ==
    \/ ip[1] = 127
    \/ ip[1] = 169 /\ ip[2] = 254
    \/ ip[1] = 10
    \/ ip[1] = 172 /\ ip[2] >= 16 /\ ip[2] <= 31
    \/ ip[1] = 192 /\ ip[2] = 168

C30_GeneratedIsPublic ==
    /\ sc.phase = "returned" => ~InExcludedRange(sc.ip)
    /\ sc.phase \in {"generating", "returned"} =>
          \A i \in DOMAIN sc.discarded : InExcludedRange(sc.discarded[i])

\* A loopback candidate was dropped and the next candidate was returned.
C30_Witness ==
    /\ sc.phase = "returned"
    /\ Len(sc.discarded) = 1
    /\ sc.discarded[1][1] = 127

(***************************************************************************)
(* C27: the number of scan_ip tasks that were dispatched and have not       *)
(* finished stays below a fixed bound however slow save_event is: something *)
(* in the driver, and not only the limit of the model, stops it from        *)
(* dispatching.                                                             *)
(***************************************************************************)
C27_BoundedInFlight == sc.phase = "scanner" => InFlight < MaxTasks

(***************************************************************************)
(* C28: scan_ip has an outcome for every port before it builds or saves an  *)
(* event for the address, and a port whose connect fails ends as "closed"   *)
(* (no observation) while the task goes on and the outcomes of the other    *)
(* ports of the address stay what they were.                                *)
(***************************************************************************)
Gathering(t) == sc.phase = "scanner" /\ sc.tasks[t].stage = "gather"

ConnectFailsAt(t, i) ==
    /\ Gathering(t)
    /\ sc.tasks[t].results[i].connect = "none"
    /\ sc.tasks'[t].stage # "none"
    /\ sc.tasks'[t].results[i].connect = "failed"

C28_AllOutcomesFirst ==
    /\ [](\A t \in TaskIds :
            /\ sc.phase = "scanner" /\ sc.tasks[t].stage = "results" =>
                  \A i \in DOMAIN ProbedPorts : sc.tasks[t].results[i].st = "done"
            /\ sc.phase = "scanner" /\ sc.tasks[t].stage # "none" =>
                  \A i \in DOMAIN ProbedPorts :
                      sc.tasks[t].results[i].connect = "failed" =>
                          /\ sc.tasks[t].results[i].st = "done"
                          /\ sc.tasks[t].results[i].res = Ok(NoObservation))
    /\ [][\A t \in TaskIds :
            Gathering(t) =>
                \A i \in DOMAIN ProbedPorts :
                    ConnectFailsAt(t, i) =>
                        /\ sc.tasks'[t].stage = "gather"
                        /\ sc.tasks'[t].ip = sc.tasks[t].ip
                        /\ \A j \in DOMAIN ProbedPorts :
                               j # i => sc.tasks'[t].results[j] = sc.tasks[t].results[j]]_vars

\* An event is being saved for an address one port of which failed to connect
\* and another port of which is open.
C28_Witness ==
    /\ sc.phase = "scanner"
    /\ \E t \in TaskIds :
          /\ sc.tasks[t].stage = "results"
          /\ sc.tasks[t].results[1].connect = "failed"
          /\ IsDict(sc.tasks[t].results[2])
          /\ sc.tasks[t].next = 2

(***************************************************************************)
(* C29: when a port connects and the banner read times out, fails or gives  *)
(* nothing, scan_port returns an observation with state "open" and no       *)
(* banner; a port that connected is never reported closed and scan_port     *)
(* never raises for it.                                                     *)
(***************************************************************************)
BannerReadFailed ==
    \/ ActiveProbe(sc.port) /\ sc.send.exc # "none"
    \/ sc.recv.exc # "none"
    \/ sc.recv.exc = "none" /\ sc.recv.val = <<>>

C29_BannerFailureStillOpen ==
    (sc.phase = "port_done" /\ sc.connect = Ok(0)) =>
        /\ sc.result.exc = "none"
        /\ sc.result.val.state = "open"
        /\ sc.result.val.port = sc.port
        /\ BannerReadFailed => sc.result.val.banner = Absent

\* The port connected and the read of its banner timed out.
C29_Witness ==
    /\ sc.phase = "port_done"
    /\ sc.connect = Ok(0)
    /\ sc.recv = Raise("socket.timeout")
    /\ sc.result = Ok(Observation(Target, sc.port, Absent))

(***************************************************************************)
(* C31: detect_service depends on (port, banner) alone.  Without a banner   *)
(* the label is the entry of the port table, or 'unknown-<port>' for a port *)
(* outside it; a banner that contains no signature leaves that default; a   *)
(* banner that contains, in any case, a signature of the list gets the      *)
(* service of a signature it contains, whatever the port.                   *)
(***************************************************************************)
PortTable ==
    {<<21, "ftp">>, <<22, "ssh">>, <<23, "telnet">>, <<25, "smtp">>, <<80, "http">>,
     <<110, "pop3">>, <<143, "imap">>, <<443, "https">>, <<445, "smb">>,
     <<3306, "mysql">>, <<3389, "rdp">>, <<5432, "postgresql">>, <<5900, "vnc">>,
     <<6379, "redis">>, <<8080, "http-proxy">>, <<8443, "https-alt">>,
     <<27017, "mongodb">>, <<9200, "elasticsearch">>, <<9300, "elasticsearch">>}

PortDefault(port) ==
    IF \E e \in PortTable : e[1] = port
    THEN Known((CHOOSE e \in PortTable : e[1] = port)[2])
    ELSE UnknownPort(port)

SignatureList ==
    {<<APACHE, "apache-httpd">>, <<NGINX, "nginx">>, <<OPENSSH, "openssh">>,
     <<MYSQL, "mysql">>, <<POSTGRESQL, "postgresql">>, <<REDIS, "redis">>,
     <<MONGODB, "mongodb">>, <<ELASTICSEARCH, "elasticsearch">>}

\* The signatures the banner contains when case is ignored.
SignaturesIn(banner) ==
    IF banner.t # "str" THEN {}
    ELSE {e \in SignatureList :
            \E k \in 1..Len(banner.s) :
                /\ k + Len(e[1]) - 1 <= Len(banner.s)
                /\ \A i \in 1..Len(e[1]) :
                       LowerChar(banner.s[k + i - 1]) = e[1][i]}

C31_ServiceLabel ==
    sc.phase = "service_done" =>
        /\ SignaturesIn(sc.banner) = {} => sc.service = PortDefault(sc.port)
        /\ SignaturesIn(sc.banner) # {} =>
              \E e \in SignaturesIn(sc.banner) : sc.service = Known(e[2])

\* A banner spelling OpenSSH in mixed case on a port whose default is another
\* service.
C31_Witness ==
    /\ sc.phase = "service_done"
    /\ sc.port = 80
    /\ \E e \in SignaturesIn(sc.banner) : e[2] = "openssh"
    /\ sc.banner.s # lower(sc.banner.s)
    /\ sc.service = Known("openssh")

(***************************************************************************)
(* C32: a scan_port is suspended while its connection attempt is pending:   *)
(* as long as one attempt has not ended, the dispatch loop can wake from    *)
(* its sleep and another port that has not been tried yet can start its     *)
(* own attempt.                                                             *)
(***************************************************************************)
ConnectPending == sc.phase = "scanner" /\ sc.connecting # <<>>

AnotherPortWaits ==
    \E t \in TaskIds, i \in DOMAIN ProbedPorts :
        /\ sc.tasks[t].stage = "gather"
        /\ sc.tasks[t].results[i] = Pending
        /\ <<t, i>> # sc.connecting

C32_SuspendsAtConnect ==
    ConnectPending =>
        /\ sc.run = "sleep" => ENABLED Wake
        /\ AnotherPortWaits => ENABLED ScanPortStart

(***************************************************************************)
(* C33: with two ingestion processes on one bucket and one archive, no      *)
(* event id is processed by both: the two are never inside                  *)
(* process_event_file for the same object after both found its id missing   *)
(* from the archive, and no id is written to the index by both.             *)
(***************************************************************************)
ProcessingObject(w) ==
    IF sc.w[w].pc = "process" THEN {sc.w[w].listing[sc.w[w].cursor]} ELSE {}

C33_PerIdExclusive ==
    sc.phase = "workers" =>
        /\ ProcessingObject(1) \cap ProcessingObject(2) = {}
        /\ sc.w[1].indexed \cap sc.w[2].indexed = {}

====
